---- MODULE Spec2Model ----
(***************************************************************************)
(* nanobot-go: the agent orchestration core.                               *)
(*                                                                         *)
(*   pkg/bus/bus.go            MessageBus (inbound / outbound channels,    *)
(*                             subscribers, DispatchOutbound)              *)
(*   pkg/agent/loop_system.go  AgentLoop.Run, AgentLoop.processMessage     *)
(*   pkg/session/manager.go    Session, Manager                            *)
(*   pkg/tools/cron.go         Registry.Execute                            *)
(*   unnamed/part_002          ReadFileTool, MessageTool                   *)
(*                                                                         *)
(* Go strings are modelled as sequences of tokens, so that "" is <<>> and  *)
(* concatenation is \o.  A Go pointer that may be nil is a sequence of     *)
(* length 0 or 1.  Goroutines are records with a program counter; one      *)
(* action is one step between two accesses to shared state.                *)
(***************************************************************************)
EXTENDS Integers, Sequences, FiniteSets, TLC

VARIABLES
    inbound,      \* MessageBus.inbound: buffered channel of InboundMessage
    outbound,     \* MessageBus.outbound: buffered channel of OutboundMessage
    outLog,       \* history: every OutboundMessage whose PublishOutbound completed
    sentLog,      \* history: every InboundMessage whose PublishInbound completed
    callLog,      \* history: number of PublishInbound calls begun, per publisher
    publisher,    \* callers of PublishInbound (channel adapters): pending send, budget
    subscribers,  \* MessageBus.outboundSubscribers: surface -> list of callbacks
    dispatcher,   \* the DispatchOutbound goroutine
    invocations,  \* the per-callback goroutines DispatchOutbound started
    busStopped,   \* MessageBus.stopChan is closed
    crashed,      \* an unrecovered panic ended the process
    turnBudget,   \* bound on the goroutines AgentLoop.Run starts in this configuration
    turn,         \* the processMessage goroutines AgentLoop.Run started, in start order
    streams,      \* the streamOut channels made by processMessage rounds
    provider,     \* the chunk sequences the provider may return from Stream
    sessObjs,     \* heap of *Session objects
    cache,        \* Manager.cache: session key -> *Session
    mu,           \* Manager.mu: the goroutine inside a Manager method, or 0
    disk,         \* the sessions directory: session key -> lines of the file
    msgToolCtx,   \* MessageTool.DefaultChannel / DefaultChatID
    spawnToolCtx, \* SpawnTool.OriginChannel / OriginChatID
    subagents,    \* the runSubagent goroutines SubagentManager.Spawn started
    running,      \* SubagentManager.running: the map and its writer flag
    chatOutcomes, \* the responses the provider may return from Chat
    chatBudget,   \* bound on the Chat calls the provider serves in this configuration
    config,       \* the configured agents.defaults.maxToolIterations
    cron          \* cron.Service: the store, the clock and the scheduler goroutine

vars == <<inbound, outbound, outLog, sentLog, callLog, publisher, subscribers,
          dispatcher, invocations, busStopped, crashed, turnBudget,
          turn, streams, provider, sessObjs, cache, mu, disk, msgToolCtx, spawnToolCtx,
          subagents, running, chatOutcomes, chatBudget, config, cron>>

busInVars  == <<inbound, sentLog, callLog, publisher>>
busOutVars == <<outbound, outLog>>
dispVars   == <<subscribers, dispatcher, invocations, busStopped, crashed>>
sessVars   == <<sessObjs, cache, mu, disk>>
subVars    == <<spawnToolCtx, subagents, running, chatOutcomes, chatBudget, config, cron>>
turnVars   == <<turnBudget, turn, streams, provider, msgToolCtx, subVars>>

\* cron.NewService followed by Start with no store file: an empty store, the
\* scheduler goroutine between two ticks.  jobs is CronStore.Jobs; pc, due, k
\* and job are the position, dueIndices, the loop index and the local copy of
\* processJobs; ran, dueIds, added and removed are history.
IdleCron ==
    [jobs |-> <<>>, now |-> 1, pc |-> "idle", tick |-> 0, due |-> <<>>, k |-> 0,
     job |-> <<>>, ran |-> <<>>, dueIds |-> <<>>, added |-> 0, removed |-> {}]

----------------------------------------------------------------------------
(* Bounds of the model *)

\* Inbound messages the adapters publish in the turn specification.
MaxTurns == 2
\* The configured agents.defaults.maxToolIterations.
MaxToolIterations == 2
\* Messages published by the two publishers of the inbound-queue specification.
MaxPubA == 101
MaxPubB == 1
\* Outbound messages published / handlers subscribed in the dispatcher specification.
MaxOutbound == 2
MaxSubscribe == 3
\* Length of the chunk sequence of the single-round specification.
MaxChunks == 4
\* Chat calls the provider serves in the subagent specifications.
MaxChats == 3

(* Program constants *)

\* make(chan InboundMessage, 100), make(chan OutboundMessage, 100)
InboundCap == 100
OutboundCap == 100
\* streamOut := make(chan string, 10)
StreamCap == 10
\* maxIterations = 20 when the configured value is 0
DefaultMaxIterations == 20
\* history := sess.GetHistory(50)
HistoryLimit == 50
\* runSubagent: maxIterations := 15
SubagentMaxIterations == 15

----------------------------------------------------------------------------
(* Strings *)

Empty == <<>>

RECURSIVE Concat(_)
\* strings.Builder: the concatenation of a sequence of strings
Concat(ss) == IF ss = <<>> THEN <<>> ELSE Head(ss) \o Concat(Tail(ss))

RECURSIVE TrimLeft(_)
TrimLeft(s) == IF s # <<>> /\ Head(s) = " " THEN TrimLeft(Tail(s)) ELSE s

RECURSIVE TrimRight(_)
TrimRight(s) ==
    IF s # <<>> /\ s[Len(s)] = " " THEN TrimRight(SubSeq(s, 1, Len(s) - 1)) ELSE s

\* strings.TrimSpace
TrimSpace(s) == TrimRight(TrimLeft(s))

\* The reserved "new topic" command.
NewTopicCmd == <<"NEWTOPIC">>

NewTopicReply == <<"topic-cleared">>
FallbackText == <<"no-response">>
ApologyPrefix == <<"Sorry, I encountered an error: ">>
ToolErrorPrefix == <<"Error executing tool: ">>
LLMErrorPrefix == <<"LLM error: ">>
BackgroundText == <<"Background task completed.">>
SubagentFallbackText == <<"Task completed but no final response was generated.">>
SpawnAck == <<"Subagent started">>

----------------------------------------------------------------------------
(* Messages on the bus *)

\* InboundMessage{Channel, SenderID, ChatID, Content}.  seq is history: the
\* ordinal of the message among the messages of its sender.
InboundMessage(channel, sender, chatID, content, seq) ==
    [Channel |-> channel, SenderID |-> sender, ChatID |-> chatID, Content |-> content,
     seq |-> seq]

\* InboundMessage.SessionKey: m.Channel + ":" + m.ChatID
SessionKey(m) == m.Channel \o <<":">> \o m.ChatID

\* OutboundMessage{Channel, ChatID, Content, Stream}.  Stream is <<>> (nil) or
\* <<s>>, s the index of the channel in streams.  The fields turn, round and by
\* are history: the goroutine and round that published the message, and whether
\* the agent loop ("loop"), a tool ("tool") or another component published it.
OutboundMessage(channel, chatID, content, stream, t, r, by) ==
    [Channel |-> channel, ChatID |-> chatID, Content |-> content, Stream |-> stream,
     turn |-> t, round |-> r, by |-> by]

----------------------------------------------------------------------------
(* Provider chunks: LLMStreamChunk{Content, ToolCall, FinishReason, Error} *)

\* ToolCallChunk{Index, ID, Name, Arguments}
ToolCallChunk(index, id, name, arguments) ==
    [Index |-> index, ID |-> id, Name |-> name, Arguments |-> arguments]

ContentChunk(c) == [Content |-> c, ToolCall |-> <<>>, Error |-> FALSE]
ToolChunk(index, id, name, arguments) ==
    [Content |-> <<>>, ToolCall |-> <<ToolCallChunk(index, id, name, arguments)>>,
     Error |-> FALSE]
\* A chunk that carries a content fragment and a tool-call fragment at once.
BothChunk(c, index, id, name, arguments) ==
    [Content |-> c, ToolCall |-> <<ToolCallChunk(index, id, name, arguments)>>,
     Error |-> FALSE]
\* A finish-reason or usage chunk: neither content nor tool call.
FinishChunk == [Content |-> <<>>, ToolCall |-> <<>>, Error |-> FALSE]
ErrorChunk == [Content |-> <<>>, ToolCall |-> <<>>, Error |-> TRUE]

----------------------------------------------------------------------------
(* Tool arguments: json.Unmarshal of the accumulated argument text.  A parsed *)
(* argument object is a set of <<key, value>> pairs.  The texts that parse   *)
(* are listed; every other text is a syntax error.                           *)

ArgsPathText == <<"{", "p", "}">>
ArgsContentText == <<"{", "c", "}">>
ArgsEmptyText == <<"{", "}">>
ArgsTaskText == <<"{", "t", "}">>

JSONValid(text) == text \in {ArgsPathText, ArgsContentText, ArgsEmptyText, ArgsTaskText}

JSONValue(text) ==
    CASE text = ArgsPathText -> {<<"path", <<"x.txt">>>>}
      [] text = ArgsContentText -> {<<"content", <<"hi">>>>}
      [] text = ArgsTaskText -> {<<"task", <<"job">>>>}
      [] OTHER -> {}

\* args[key].(string): <<>> when the key is missing, else <<value>>
ArgString(args, key) ==
    IF \E p \in args : p[1] = key
    THEN <<(CHOOSE p \in args : p[1] = key)[2]>>
    ELSE <<>>

\* A reconstruction that hands text it cannot parse to the tool as it is.
ParseToolArgsRaw(argsStr) ==
    IF argsStr # Empty
    THEN IF JSONValid(argsStr) THEN JSONValue(argsStr) ELSE {<<"raw", argsStr>>}
    ELSE {}

\* processMessage, reconstruction: empty or unparseable text gives an empty map
ParseToolArgs(argsStr) ==
    IF argsStr # Empty
    THEN IF JSONValid(argsStr) THEN JSONValue(argsStr) ELSE {}
    ELSE {}

----------------------------------------------------------------------------
(* Tools.  An execution returns (result, err): err is <<>> (nil) or <<text>>. *)
(* publish is the outbound message the execution publishes, if any.           *)

ReadFileName == <<"read_file">>
MessageName == <<"message">>
SpawnName == <<"spawn">>

\* registerDefaultTools: the registry of the agent loop
RegisteredTools == {ReadFileName, MessageName, SpawnName}

\* A private registry that also holds the messaging and the spawn tool.
SubagentToolsWithSpawn == {ReadFileName, MessageName, SpawnName}

\* runSubagent, "Build subagent tools": the private registry of a subagent
SubagentTools == {ReadFileName}

\* spawn is the subagent the execution starts, if any: <<>> or <<[task, origin]>>.
ToolReturn(result, err, publish) ==
    [result |-> result, err |-> err, publish |-> publish, spawn |-> <<>>]

\* The files of the workspace: path -> content, for the paths that exist.
FileExists(path) == path = <<"x.txt">>
FileData(path) == <<"hello">>

\* ReadFileTool.Execute
ReadFileExecute(args) ==
    LET path == ArgString(args, "path") IN
    IF path = <<>>
    THEN ToolReturn(Empty, <<<<"path must be a string">>>>, <<>>)
    ELSE IF ~FileExists(path[1])
         THEN ToolReturn(<<"Error: File not found: ">> \o path[1], <<>>, <<>>)
         ELSE ToolReturn(FileData(path[1]), <<>>, <<>>)

\* MessageTool.Execute: ctx is <<DefaultChannel, DefaultChatID>>
MessageExecute(args, ctx, t, r) ==
    LET c == ArgString(args, "content")
        content == IF c = <<>> THEN Empty ELSE c[1]
        ch == ArgString(args, "channel")
        id == ArgString(args, "chat_id")
        channel == IF ch # <<>> /\ ch[1] # Empty THEN ch[1] ELSE ctx[1]
        chatID == IF id # <<>> /\ id[1] # Empty THEN id[1] ELSE ctx[2]
    IN  IF content = Empty
        THEN ToolReturn(Empty, <<<<"content is required for text message">>>>, <<>>)
        ELSE IF channel = Empty \/ chatID = Empty
             THEN ToolReturn(<<"Error: No target channel/chat specified">>, <<>>, <<>>)
             ELSE ToolReturn(<<"Message (text) sent">>, <<>>,
                             <<OutboundMessage(channel, chatID, content, <<>>, t, r, "tool")>>)

\* SpawnTool.Execute and SubagentManager.Spawn: sctx is <<OriginChannel,
\* OriginChatID>>.  Spawn starts the subagent and returns the acknowledgement.
SpawnExecute(args, sctx) ==
    LET task == ArgString(args, "task") IN
    IF task = <<>>
    THEN ToolReturn(Empty, <<<<"task must be a string">>>>, <<>>)
    ELSE [ToolReturn(SpawnAck, <<>>, <<>>) EXCEPT
             !.spawn = <<[task |-> task[1], origin |-> sctx]>>]

\* Registry.Execute on the registry holding the tools named in registry
RegistryExecute(registry, name, args, ctx, sctx, t, r) ==
    IF name \notin registry
    THEN ToolReturn(Empty, <<<<"tool not found: ">> \o name>>, <<>>)
    ELSE IF name = ReadFileName
         THEN ReadFileExecute(args)
         ELSE IF name = MessageName
              THEN MessageExecute(args, ctx, t, r)
              ELSE SpawnExecute(args, sctx)

----------------------------------------------------------------------------
(* Sessions: pkg/session/manager.go *)

\* One entry of Session.Messages: {"role", "content", "timestamp"}.  The field
\* turn is history: the goroutine that appended the entry (0: loaded from disk).
SessionMsg(role, content, t) == [role |-> role, content |-> content, turn |-> t]

\* NewSession
NewSession(key) == [Key |-> key, Messages |-> <<>>]

\* One entry of the turn context ([]interface{} messages).  round is history:
\* the round of the turn that appended the entry (0: built before the loop).
CtxEntry(role, content, id, name, calls, r) ==
    [role |-> role, content |-> content, tool_call_id |-> id, name |-> name,
     tool_calls |-> calls, round |-> r]

\* Session.GetHistory: the last maxMessages entries, role and content only
GetHistory(msgs, maxMessages) ==
    LET from == IF Len(msgs) > maxMessages THEN Len(msgs) - maxMessages + 1 ELSE 1
        tail == SubSeq(msgs, from, Len(msgs))
    IN  [i \in 1..Len(tail) |->
            CtxEntry(tail[i].role, tail[i].content, Empty, Empty, <<>>, 0)]

\* ContextBuilder.BuildMessages: system prompt, history, current user message
BuildMessages(history, content) ==
    <<CtxEntry("system", <<"system-prompt">>, Empty, Empty, <<>>, 0)>>
    \o history
    \o <<CtxEntry("user", content, Empty, Empty, <<>>, 0)>>

\* ContextBuilder.AddAssistantMessage
AddAssistantMessage(messages, content, toolCalls, r) ==
    Append(messages, CtxEntry("assistant", content, Empty, Empty, toolCalls, r))

\* ContextBuilder.AddToolResult
AddToolResult(messages, id, name, result, r) ==
    Append(messages, CtxEntry("tool", result, id, name, <<>>, r))

\* A Save that writes the metadata line and no message.
SessionLinesMetaOnly(sess) ==
    <<[type |-> "metadata", role |-> "", content |-> Empty]>>

\* Manager.Save: one metadata line, then one line per message
SessionLines(sess) ==
    <<[type |-> "metadata", role |-> "", content |-> Empty]>>
    \o [i \in 1..Len(sess.Messages) |->
            [type |-> "message", role |-> sess.Messages[i].role,
             content |-> sess.Messages[i].content]]

\* bufio.NewScanner: the longest line (token) Scanner.Scan returns, in bytes
\* (bufio.MaxScanTokenSize, 64 * 1024)
MaxScanTokenSize == 65536

\* A text of MaxScanTokenSize bytes, kept as one token.
LongText == <<"LONG">>

RECURSIVE TextBytes(_)
\* len(s) of a Go string: the bytes of its tokens
TextBytes(s) ==
    IF s = <<>> THEN 0
    ELSE (IF <<Head(s)>> = LongText THEN MaxScanTokenSize ELSE Len(Head(s)))
         + TextBytes(Tail(s))

\* The bytes of a line of the session file: at least those of its content
\* (json.Marshal never shortens a string).
LineBytes(line) == TextBytes(line.content)

\* bufio.Scanner.Scan: FALSE (ErrTooLong) for a line that does not fit the buffer
ScanReturns(line) == LineBytes(line) < MaxScanTokenSize

RECURSIVE LoadMessages(_)
\* Manager.load, "for scanner.Scan()": the loop ends with the file or with the
\* first line Scan does not return; the metadata line sets the metadata, every
\* other line is a message
LoadMessages(lines) ==
    IF lines = <<>> \/ ~ScanReturns(Head(lines)) THEN <<>>
    ELSE IF Head(lines).type = "metadata"
         THEN LoadMessages(Tail(lines))
         ELSE <<SessionMsg(Head(lines).role, Head(lines).content, 0)>>
              \o LoadMessages(Tail(lines))

\* Manager.load
LoadSession(key) == [Key |-> key, Messages |-> LoadMessages(disk[key])]

\* m with key k removed / set (Go map delete and assignment)
MapDelete(m, k) == [x \in DOMAIN m \ {k} |-> m[x]]
MapPut(m, k, v) == [x \in DOMAIN m \cup {k} |-> IF x = k THEN v ELSE m[x]]

----------------------------------------------------------------------------
(* One round of processMessage: accumulation and reconstruction *)

\* The accumulator entry of a call index: ToolCallAcc{ID, Name, ArgsBuilder}
ToolCallAcc(id, name, args) == [ID |-> id, Name |-> name, Args |-> args]

\* An accumulator that keeps only the last argument fragment of an index.
AccumulateLast(acc, tc) ==
    MapPut(acc, tc.Index, ToolCallAcc(tc.ID, tc.Name, tc.Arguments))

\* processMessage, "if chunk.ToolCall != nil": the accumulator after the fragment tc
Accumulate(acc, tc) ==
    LET old == IF tc.Index \in DOMAIN acc THEN acc[tc.Index]
               ELSE ToolCallAcc(Empty, Empty, Empty)
        new == ToolCallAcc(IF tc.ID # Empty THEN tc.ID ELSE old.ID,
                           IF tc.Name # Empty THEN tc.Name ELSE old.Name,
                           IF tc.Arguments # Empty THEN old.Args \o tc.Arguments
                           ELSE old.Args)
    IN  MapPut(acc, tc.Index, new)

\* processMessage: the accumulator after the whole chunk (no change without a tool call)
AccumulateChunk(acc, chunk) ==
    IF chunk.ToolCall # <<>> THEN Accumulate(acc, chunk.ToolCall[1]) ELSE acc

RECURSIVE SortInts(_)
\* sort.Ints over the keys of the accumulator
SortInts(S) ==
    IF S = {} THEN <<>>
    ELSE LET m == CHOOSE x \in S : \A y \in S : x <= y
         IN  <<m>> \o SortInts(S \ {m})

\* providers.ToolCallRequest{ID, Name, Arguments}; ArgsText is history: the
\* accumulated text the arguments were parsed from, Index the call index
ToolCallRequest(id, name, arguments, text, index) ==
    [ID |-> id, Name |-> name, Arguments |-> arguments, ArgsText |-> text,
     Index |-> index]

\* processMessage, "Reconstruct Tool Calls"
ReconstructToolCalls(acc) ==
    LET indices == SortInts(DOMAIN acc)
    IN  [i \in 1..Len(indices) |->
            LET a == acc[indices[i]]
            IN  ToolCallRequest(a.ID, a.Name, ParseToolArgs(a.Args), a.Args, indices[i])]

\* processMessage: the fragment pushed into streamOut for a chunk
StreamFragment(chunk) == chunk.Content

\* A loop that forwards every chunk, tool-call fragments included.
CarriesAnything(chunk) == chunk.Content # Empty \/ chunk.ToolCall # <<>>

\* processMessage, "if chunk.Content != \"\"": the chunk is pushed into the stream
CarriesContent(chunk) == chunk.Content # Empty

\* A loop that publishes a stream message for every content chunk.
OpensStreamAlways(chunk, published) == CarriesContent(chunk)

\* processMessage, "if !messagePublished": the chunk opens the outbound stream
OpensStream(chunk, published) == CarriesContent(chunk) /\ ~published

\* A loop that returns the tool's error to Run instead of rendering it.
ToolOutcomeFatal(ret) ==
    [result |-> ret.result, fatal |-> ret.err # <<>>]

\* processMessage: the result text of a tool execution and whether the error
\* ends the turn (it never does: the error is rendered as the result)
ToolOutcome(ret) ==
    [result |-> IF ret.err # <<>> THEN ToolErrorPrefix \o ret.err[1] ELSE ret.result,
     fatal |-> FALSE]

\* NewAgentLoop: the round budget of a turn
MaxIterations ==
    IF config = 0 THEN DefaultMaxIterations ELSE config

----------------------------------------------------------------------------
(* MessageBus: inbound *)

Publishers == {"A", "B"}

\* A caller of PublishInbound begins the call with the message m.
PubCall(p) ==
    /\ ~crashed
    /\ publisher[p].pending = <<>>
    /\ publisher[p].budget > 0
    /\ \E m \in publisher[p].choices :
          publisher' = [publisher EXCEPT
              ![p].pending = <<[m EXCEPT !.seq = callLog[p] + 1]>>,
              ![p].budget = @ - 1]
    /\ callLog' = [callLog EXCEPT ![p] = @ + 1]
    /\ UNCHANGED <<inbound, sentLog, busOutVars, dispVars, sessVars, turnVars>>

\* PublishInbound, "b.inbound <- msg" with room in the buffer
InboundSend(queue, m) == Append(queue, m)

\* PublishInbound: the send completes once the buffer has room; until then the
\* caller stays blocked with its message.
PubSend(p) ==
    /\ ~crashed
    /\ publisher[p].pending # <<>>
    /\ Len(inbound) < InboundCap
    /\ inbound' = InboundSend(inbound, publisher[p].pending[1])
    /\ sentLog' = Append(sentLog, publisher[p].pending[1])
    /\ publisher' = [publisher EXCEPT ![p].pending = <<>>]
    /\ UNCHANGED <<callLog, busOutVars, dispVars, sessVars, turnVars>>

----------------------------------------------------------------------------
(* MessageBus: outbound *)

\* PublishOutbound: "b.outbound <- msg" (blocks while the buffer is full)
CanPublish == Len(outbound) < OutboundCap

Publish(m) ==
    /\ CanPublish
    /\ outbound' = Append(outbound, m)
    /\ outLog' = Append(outLog, m)

\* Zero or one message published (ms is <<>> or <<m>>).
PublishOpt(ms) ==
    IF ms = <<>> THEN UNCHANGED busOutVars ELSE Publish(ms[1])

----------------------------------------------------------------------------
(* AgentLoop.Run and AgentLoop.processMessage *)

SystemChannel == <<"system">>

RECURSIVE SplitAtColon(_, _)
\* strings.SplitN(s, ":", 2) for a string that contains ":"; done is the part
\* before the position reached
SplitAtColon(done, rest) ==
    IF Head(rest) = ":" THEN <<done, Tail(rest)>>
    ELSE SplitAtColon(Append(done, Head(rest)), Tail(rest))

\* A parser that splits the conversation field at its last ":".
ParseOriginLastColon(chatID) ==
    IF \E i \in DOMAIN chatID : chatID[i] = ":"
    THEN LET last == CHOOSE i \in DOMAIN chatID :
                        /\ chatID[i] = ":"
                        /\ \A j \in DOMAIN chatID : chatID[j] = ":" => j <= i
         IN  <<SubSeq(chatID, 1, last - 1), SubSeq(chatID, last + 1, Len(chatID))>>
    ELSE <<<<"cli">>, chatID>>

\* processSystemMessage, "Parse origin from chat_id": <<channel, chatID>>
ParseOrigin(chatID) ==
    IF \E i \in DOMAIN chatID : chatID[i] = ":"
    THEN SplitAtColon(<<>>, chatID)
    ELSE <<<<"cli">>, chatID>>

\* The surface and conversation a turn works for: those of the message, or,
\* for a "system" message, the origin parsed from its ChatID.
OriginOf(m) ==
    IF m.Channel = SystemChannel THEN ParseOrigin(m.ChatID) ELSE <<m.Channel, m.ChatID>>

\* The local state of one processMessage goroutine.  History fields: input and
\* nread (the chunks of the round and how many were consumed), failed (the
\* tool calls that returned an error), calls (provider calls made), appended
\* (the AddMessage calls made), provFailed (rounds whose provider call failed),
\* toolRounds (rounds that reconstructed at least one tool call).
NewTurn(m) ==
    [pc |-> "start", msg |-> m, sess |-> 0, iteration |-> 0, finalContent |-> Empty,
     messages |-> <<>>, stream |-> <<>>, input |-> <<>>, nread |-> 0, chunk |-> <<>>,
     acc |-> <<>>, content |-> <<>>, published |-> FALSE, streamOut |-> 0,
     toolCalls |-> <<>>, tcIdx |-> 0, err |-> <<>>, local |-> <<>>, failed |-> {},
     calls |-> 0, system |-> m.Channel = SystemChannel, origin |-> OriginOf(m),
     appended |-> <<>>, provFailed |-> {}, toolRounds |-> {}]

Turns == 1..Len(turn)

\* A streamOut channel: buf the buffered fragments, closed the number of
\* close() calls, read the fragments its consumer has received (history),
\* turn and round the round that made it (history).
NewStream(t, r) == [buf |-> <<>>, closed |-> 0, read |-> <<>>, turn |-> t, round |-> r]

\* A channel that hands out its newest element.
InboundRecvNewest(queue) ==
    [msg |-> queue[Len(queue)], rest |-> SubSeq(queue, 1, Len(queue) - 1)]

\* Run: "case msg := <-inbound", the receive from the inbound channel
InboundRecv(queue) == [msg |-> Head(queue), rest |-> Tail(queue)]

\* Run: "case msg := <-inbound: go func(m) {...}(msg)"
RunReceive ==
    /\ ~crashed
    /\ inbound # <<>>
    /\ Len(turn) < turnBudget
    /\ inbound' = InboundRecv(inbound).rest
    /\ turn' = Append(turn, NewTurn(InboundRecv(inbound).msg))
    /\ UNCHANGED <<sentLog, callLog, publisher, busOutVars, dispVars, sessVars,
                   turnBudget, streams, provider, msgToolCtx, subVars>>

\* processMessage: strings.TrimSpace(msg.Content) == "新话题"
IsNewTopic(m) == TrimSpace(m.Content) = NewTopicCmd

\* processMessage: a "system" message goes to processSystemMessage, which gets
\* the session of the parsed origin; the new-topic command clears the session
\* (Manager.Clear); any other message gets its session (Manager.GetOrCreate).
ProcessStart(t) ==
    /\ t \in Turns
    /\ ~crashed
    /\ turn[t].pc = "start"
    /\ mu = 0
    /\ LET key == IF turn[t].system
                  THEN turn[t].origin[1] \o <<":">> \o turn[t].origin[2]
                  ELSE SessionKey(turn[t].msg)
       IN
       IF ~turn[t].system /\ IsNewTopic(turn[t].msg)
       THEN /\ cache' = MapDelete(cache, key)
            /\ disk' = MapDelete(disk, key)
            /\ turn' = [turn EXCEPT ![t].pc = "confirm"]
            /\ UNCHANGED <<sessObjs, mu>>
       ELSE IF key \in DOMAIN cache
            THEN /\ turn' = [turn EXCEPT ![t].pc = "context", ![t].sess = cache[key]]
                 /\ UNCHANGED sessVars
            ELSE /\ sessObjs' = Append(sessObjs,
                        IF key \in DOMAIN disk THEN LoadSession(key) ELSE NewSession(key))
                 /\ cache' = MapPut(cache, key, Len(sessObjs) + 1)
                 /\ turn' = [turn EXCEPT ![t].pc = "context",
                                         ![t].sess = Len(sessObjs) + 1]
                 /\ UNCHANGED <<mu, disk>>
    /\ UNCHANGED <<busInVars, busOutVars, dispVars, turnBudget, streams, provider,
                   msgToolCtx, subVars>>

\* processMessage: the confirmation of the new-topic command
NewTopicConfirm(t) ==
    /\ t \in Turns
    /\ ~crashed
    /\ turn[t].pc = "confirm"
    /\ Publish(OutboundMessage(turn[t].msg.Channel, turn[t].msg.ChatID, NewTopicReply,
                               <<>>, t, 0, "loop"))
    /\ turn' = [turn EXCEPT ![t].pc = "done"]
    /\ UNCHANGED <<busInVars, dispVars, sessVars, turnBudget, streams, provider,
                   msgToolCtx, subVars>>

\* processMessage and processSystemMessage, "Update tool contexts":
\* SpawnTool.SetContext and MessageTool.SetContext on the shared tool objects
SetToolContext(t) ==
    /\ t \in Turns
    /\ ~crashed
    /\ turn[t].pc = "context"
    /\ spawnToolCtx' = turn[t].origin
    /\ msgToolCtx' = turn[t].origin
    /\ turn' = [turn EXCEPT ![t].pc = "build"]
    /\ UNCHANGED <<busInVars, busOutVars, dispVars, sessVars, turnBudget, streams,
                   provider, subagents, running, chatOutcomes, chatBudget, config, cron>>

\* processMessage, "Build initial messages"
BuildContext(t) ==
    /\ t \in Turns
    /\ ~crashed
    /\ turn[t].pc = "build"
    /\ turn' = [turn EXCEPT
          ![t].pc = IF turn[t].system THEN "sysloop" ELSE "loop",
          ![t].messages = BuildMessages(
              GetHistory(sessObjs[turn[t].sess].Messages, HistoryLimit),
              turn[t].msg.Content)]
    /\ UNCHANGED <<busInVars, busOutVars, dispVars, sessVars, turnBudget, streams,
                   provider, msgToolCtx, subVars>>

\* What Provider.Stream returns: an error, or a channel that delivers chunks.
StreamOutcome(err, chunks) == [err |-> err, chunks |-> chunks]

\* A loop that treats a failed provider call as an answer and goes on to the
\* session entries.
ProviderErrorPcAppends(system) == "addUser"

\* processMessage and processSystemMessage, "return fmt.Errorf("LLM error:
\* %w", err)": where the turn continues after a failed provider call, in Run
ProviderErrorPc(system) == "failed"

\* processMessage, head of the round loop with budget left: the call of
\* Provider.Stream.  An error returns "LLM error" to Run; otherwise the round
\* starts with a fresh accumulator and a fresh streamOut.
LoopNext(t) ==
    /\ t \in Turns
    /\ ~crashed
    /\ turn[t].pc = "loop"
    /\ turn[t].iteration < MaxIterations
    /\ \E o \in provider :
          IF o.err
          THEN /\ turn' = [turn EXCEPT
                      ![t].pc = ProviderErrorPc(FALSE),
                      ![t].iteration = @ + 1,
                      ![t].calls = @ + 1,
                      ![t].provFailed = @ \cup {turn[t].iteration + 1},
                      ![t].err = <<LLMErrorPrefix>>]
               /\ UNCHANGED streams
          ELSE /\ turn' = [turn EXCEPT
                      ![t].pc = "chunks",
                      ![t].iteration = @ + 1,
                      ![t].calls = @ + 1,
                      ![t].stream = o.chunks,
                      ![t].input = o.chunks,
                      ![t].nread = 0,
                      ![t].acc = <<>>,
                      ![t].content = <<>>,
                      ![t].published = FALSE,
                      ![t].streamOut = Len(streams) + 1]
               /\ streams' = Append(streams, NewStream(t, turn[t].iteration + 1))
    /\ UNCHANGED <<busInVars, busOutVars, dispVars, sessVars, turnBudget, provider,
                   msgToolCtx, subVars>>

\* processMessage: the round loop ends because the budget is used up.
LoopExit(t) ==
    /\ t \in Turns
    /\ ~crashed
    /\ turn[t].pc = "loop"
    /\ turn[t].iteration >= MaxIterations
    /\ turn' = [turn EXCEPT ![t].pc = "post"]
    /\ UNCHANGED <<busInVars, busOutVars, dispVars, sessVars, turnBudget, streams,
                   provider, msgToolCtx, subVars>>

\* processMessage, "for chunk := range stream": the next chunk arrives.  An
\* error chunk breaks the loop.  The first chunk with content publishes the
\* stream message; a chunk with content is then pushed (Push); a chunk without
\* content is accumulated at once.
ChunkRecv(t) ==
    /\ t \in Turns
    /\ ~crashed
    /\ turn[t].pc = "chunks"
    /\ turn[t].stream # <<>>
    /\ LET chunk == Head(turn[t].stream)
           base == [turn EXCEPT ![t].stream = Tail(@), ![t].nread = @ + 1]
       IN  IF chunk.Error
           THEN /\ turn' = [base EXCEPT ![t].pc = "close",
                                        ![t].provFailed = @ \cup {turn[t].iteration}]
                /\ UNCHANGED busOutVars
           ELSE IF CarriesContent(chunk)
                THEN /\ IF OpensStream(chunk, turn[t].published)
                        THEN Publish(OutboundMessage(turn[t].msg.Channel,
                                        turn[t].msg.ChatID, Empty,
                                        <<turn[t].streamOut>>, t, turn[t].iteration, "loop"))
                        ELSE UNCHANGED busOutVars
                     /\ turn' = [base EXCEPT ![t].pc = "push",
                                             ![t].published = TRUE,
                                             ![t].chunk = <<chunk>>]
                ELSE /\ turn' = [base EXCEPT ![t].acc = AccumulateChunk(@, chunk)]
                     /\ UNCHANGED busOutVars
    /\ UNCHANGED <<busInVars, dispVars, sessVars, turnBudget, streams, provider,
                   msgToolCtx, subVars>>

\* processMessage: "streamOut <- chunk.Content" (blocks while the buffer is
\* full), contentBuilder.WriteString, then the tool-call part of the chunk.
Push(t) ==
    /\ t \in Turns
    /\ ~crashed
    /\ turn[t].pc = "push"
    /\ Len(streams[turn[t].streamOut].buf) < StreamCap
    /\ LET chunk == turn[t].chunk[1] IN
       /\ streams' = [streams EXCEPT
              ![turn[t].streamOut].buf = Append(@, StreamFragment(chunk))]
       /\ turn' = [turn EXCEPT
              ![t].pc = "chunks",
              ![t].chunk = <<>>,
              ![t].content = Append(@, chunk.Content),
              ![t].acc = AccumulateChunk(@, chunk)]
    /\ UNCHANGED <<busInVars, busOutVars, dispVars, sessVars, turnBudget, provider,
                   msgToolCtx, subVars>>

\* The consumer of a stream (a channel adapter) receives the next fragment.
StreamRecv(s) ==
    /\ s \in DOMAIN streams
    /\ ~crashed
    /\ streams[s].buf # <<>>
    /\ streams' = [streams EXCEPT ![s].buf = Tail(@),
                                  ![s].read = Append(@, Head(streams[s].buf))]
    /\ UNCHANGED <<busInVars, busOutVars, dispVars, sessVars, turnBudget, turn,
                   provider, msgToolCtx, subVars>>

\* processMessage, after the chunk loop: close(streamOut), the final content,
\* the reconstruction of the tool calls and, with at least one call, the
\* assistant entry of the turn context.
CloseStream(t) ==
    /\ t \in Turns
    /\ ~crashed
    /\ \/ turn[t].pc = "close"
       \/ turn[t].pc = "chunks" /\ turn[t].stream = <<>>
    /\ streams' = [streams EXCEPT ![turn[t].streamOut].closed = @ + 1]
    /\ LET final == Concat(turn[t].content)
           calls == ReconstructToolCalls(turn[t].acc)
       IN  turn' = [turn EXCEPT
              ![t].finalContent = final,
              ![t].toolCalls = calls,
              ![t].tcIdx = 1,
              ![t].toolRounds = IF Len(calls) > 0 THEN @ \cup {turn[t].iteration} ELSE @,
              ![t].messages = IF Len(calls) > 0
                              THEN AddAssistantMessage(@, final, calls, turn[t].iteration)
                              ELSE @,
              ![t].pc = IF Len(calls) > 0 THEN "tools" ELSE "post"]
    /\ UNCHANGED <<busInVars, busOutVars, dispVars, sessVars, turnBudget, provider,
                   msgToolCtx, subVars>>

\* A runSubagent goroutine.  by is history: the turn (or, negated, the
\* subagent) whose tool call started it; calls counts its provider calls,
\* tried holds the names of the tools it executed, provFailed and toolFailed
\* tell whether a provider call or a tool execution returned an error.
NewSubagent(task, origin, by) ==
    [pc |-> "loop", task |-> task, origin |-> origin, iteration |-> 0,
     toolCalls |-> <<>>, tcIdx |-> 0, finalResult |-> Empty, status |-> "ok",
     by |-> by, calls |-> 0, tried |-> {}, provFailed |-> FALSE, toolFailed |-> FALSE]

\* A write to the Go map SubagentManager.running while another goroutine is
\* inside a write of the same map: the runtime may detect it and end the
\* process ("concurrent map writes"), or the write may go unnoticed.
MapWriteOutcomes(writing) == IF writing THEN {TRUE, FALSE} ELSE {FALSE}

\* SubagentManager.Spawn: "m.running[taskID] = true; go m.runSubagent(...)".
\* The task id is the position of the goroutine in subagents.
Spawn(task, origin, by) ==
    /\ subagents' = Append(subagents, NewSubagent(task, origin, by))
    /\ running' = [running EXCEPT !.keys = @ \cup {Len(subagents) + 1}]
    /\ crashed' \in MapWriteOutcomes(running.writing)

\* A tool loop that skips the last call of a round.
LastToolCallSkipped(calls, idx) == idx >= Len(calls) - 1

\* processMessage, "for _, tc := range toolCalls": idx is the last call
LastToolCall(calls, idx) == idx = Len(calls)

\* processMessage, "Execute tools": one call is executed through the registry
\* and its result appended to the turn context.
ExecTool(t) ==
    /\ t \in Turns
    /\ ~crashed
    /\ turn[t].pc = "tools"
    /\ LET tc == turn[t].toolCalls[turn[t].tcIdx]
           ret == RegistryExecute(RegisteredTools, tc.Name, tc.Arguments, msgToolCtx,
                                  spawnToolCtx, t, turn[t].iteration)
           out == ToolOutcome(ret)
           failed == IF ret.err # <<>>
                     THEN turn[t].failed \cup {<<turn[t].iteration, turn[t].tcIdx>>}
                     ELSE turn[t].failed
       IN  /\ PublishOpt(ret.publish)
           /\ IF ret.spawn # <<>>
              THEN Spawn(ret.spawn[1].task, ret.spawn[1].origin, t)
              ELSE UNCHANGED <<subagents, running, crashed>>
           /\ IF out.fatal
              THEN turn' = [turn EXCEPT ![t].pc = "failed", ![t].err = ret.err,
                                         ![t].failed = failed]
              ELSE turn' = [turn EXCEPT
                      ![t].messages = AddToolResult(@, tc.ID, tc.Name, out.result,
                                                    turn[t].iteration),
                      ![t].failed = failed,
                      ![t].tcIdx = @ + 1,
                      ![t].pc = IF LastToolCall(turn[t].toolCalls, turn[t].tcIdx)
                                THEN (IF turn[t].system THEN "sysloop" ELSE "loop")
                                ELSE "tools"]
    /\ UNCHANGED <<busInVars, subscribers, dispatcher, invocations, busStopped, sessVars,
                   turnBudget, streams, provider, msgToolCtx, spawnToolCtx, chatOutcomes,
                   chatBudget, config, cron>>

\* processMessage, after the loop: an empty final content becomes the fallback
\* text, published only when the loop ran exactly one round.
PublishesFallback(final, iteration) == final = Empty /\ iteration = 1

Post(t) ==
    /\ t \in Turns
    /\ ~crashed
    /\ turn[t].pc = "post"
    /\ IF PublishesFallback(turn[t].finalContent, turn[t].iteration)
       THEN Publish(OutboundMessage(turn[t].msg.Channel, turn[t].msg.ChatID,
                                    FallbackText, <<>>, t, turn[t].iteration, "loop"))
       ELSE UNCHANGED busOutVars
    /\ turn' = [turn EXCEPT
          ![t].pc = "addUser",
          ![t].finalContent = IF @ = Empty THEN FallbackText ELSE @]
    /\ UNCHANGED <<busInVars, dispVars, sessVars, turnBudget, streams, provider,
                   msgToolCtx, subVars>>

\* The content of the user entry a turn adds to its session: msg.Content, or
\* "[System: <sender>] <content>" in processSystemMessage.
UserEntryContent(tr) ==
    IF tr.system
    THEN <<"[System: ">> \o tr.msg.SenderID \o <<"] ">> \o tr.msg.Content
    ELSE tr.msg.Content

\* Session.AddMessage, "append(s.Messages, msg)", first half: the slice is read.
\* The session has no lock, so another goroutine may act before the write.
AppendRead(t) ==
    /\ t \in Turns
    /\ ~crashed
    /\ turn[t].pc \in {"addUser", "addAsst"}
    /\ turn' = [turn EXCEPT
          ![t].local = sessObjs[turn[t].sess].Messages,
          ![t].pc = IF turn[t].pc = "addUser" THEN "addUserW" ELSE "addAsstW"]
    /\ UNCHANGED <<busInVars, busOutVars, dispVars, sessVars, turnBudget, streams,
                   provider, msgToolCtx, subVars>>

\* Session.AddMessage, second half: the extended slice is stored in s.Messages.
AppendWrite(t) ==
    /\ t \in Turns
    /\ ~crashed
    /\ turn[t].pc \in {"addUserW", "addAsstW"}
    /\ LET m == IF turn[t].pc = "addUserW"
                THEN SessionMsg("user", UserEntryContent(turn[t]), t)
                ELSE SessionMsg("assistant", turn[t].finalContent, t)
       IN  /\ sessObjs' = [sessObjs EXCEPT
                 ![turn[t].sess].Messages = Append(turn[t].local, m)]
           /\ turn' = [turn EXCEPT
                 ![t].local = <<>>,
                 ![t].appended = Append(@, [role |-> m.role, content |-> m.content]),
                 ![t].pc = IF turn[t].pc = "addUserW" THEN "addAsst" ELSE "save"]
    /\ UNCHANGED <<busInVars, busOutVars, dispVars, cache, mu, disk, turnBudget, streams,
                   provider, msgToolCtx, subVars>>

\* Manager.Save (under Manager.mu): the cache entry and the file are rewritten.
Save(t) ==
    /\ t \in Turns
    /\ ~crashed
    /\ turn[t].pc = "save"
    /\ mu = 0
    /\ LET key == sessObjs[turn[t].sess].Key IN
       /\ cache' = MapPut(cache, key, turn[t].sess)
       /\ disk' = MapPut(disk, key, SessionLines(sessObjs[turn[t].sess]))
    /\ turn' = [turn EXCEPT ![t].pc = IF turn[t].system THEN "syspublish" ELSE "done"]
    /\ UNCHANGED <<busInVars, busOutVars, dispVars, sessObjs, mu, turnBudget, streams,
                   provider, msgToolCtx, subVars>>

\* Run: processMessage returned an error; the apology is published.
RunApology(t) ==
    /\ t \in Turns
    /\ ~crashed
    /\ turn[t].pc = "failed"
    /\ Publish(OutboundMessage(turn[t].msg.Channel, turn[t].msg.ChatID,
                               ApologyPrefix \o turn[t].err[1], <<>>, t,
                               turn[t].iteration, "loop"))
    /\ turn' = [turn EXCEPT ![t].pc = "done"]
    /\ UNCHANGED <<busInVars, dispVars, sessVars, turnBudget, streams, provider,
                   msgToolCtx, subVars>>

----------------------------------------------------------------------------
(* AgentLoop.processSystemMessage: the turn of a "system" message *)

\* What Provider.Chat returns (LLMResponse or an error): err, the content and
\* the tool calls with their parsed arguments.
ChatOutcome(err, content, toolCalls) ==
    [err |-> err, content |-> content, toolCalls |-> toolCalls]

\* OpenAIProvider.Chat: one tool call of the response, arguments parsed
ChatToolCall(id, name, text) == ToolCallRequest(id, name, ParseToolArgs(text), text, 0)

\* processSystemMessage, head of the round loop with budget left: Provider.Chat.
\* An error returns "LLM error" to Run; tool calls are added to the context
\* and executed (ExecTool); a response without tool calls is the final content.
SysChat(t) ==
    /\ t \in Turns
    /\ ~crashed
    /\ turn[t].pc = "sysloop"
    /\ turn[t].iteration < MaxIterations
    /\ chatBudget > 0
    /\ chatBudget' = chatBudget - 1
    /\ \E o \in chatOutcomes :
          LET r == turn[t].iteration + 1
              base == [turn EXCEPT ![t].iteration = r, ![t].calls = @ + 1]
          IN  turn' =
                IF o.err
                THEN [base EXCEPT ![t].pc = ProviderErrorPc(TRUE),
                                  ![t].provFailed = @ \cup {r},
                                  ![t].err = <<LLMErrorPrefix>>]
                ELSE IF o.toolCalls # <<>>
                     THEN [base EXCEPT
                             ![t].pc = "tools",
                             ![t].toolCalls = o.toolCalls,
                             ![t].tcIdx = 1,
                             ![t].toolRounds = @ \cup {r},
                             ![t].messages = AddAssistantMessage(@, o.content,
                                                                 o.toolCalls, r)]
                     ELSE [base EXCEPT ![t].pc = "syspost", ![t].finalContent = o.content]
    /\ UNCHANGED <<busInVars, busOutVars, dispVars, sessVars, turnBudget, streams,
                   provider, msgToolCtx, spawnToolCtx, subagents, running, chatOutcomes,
                   config, cron>>

\* processSystemMessage, after the loop (a final response, or the budget used
\* up): an empty final content becomes "Background task completed."
SysPost(t) ==
    /\ t \in Turns
    /\ ~crashed
    /\ \/ turn[t].pc = "syspost"
       \/ turn[t].pc = "sysloop" /\ turn[t].iteration >= MaxIterations
    /\ turn' = [turn EXCEPT
          ![t].pc = "addUser",
          ![t].finalContent = IF @ = Empty THEN BackgroundText ELSE @]
    /\ UNCHANGED <<busInVars, busOutVars, dispVars, sessVars, turnBudget, streams,
                   provider, msgToolCtx, subVars>>

\* processSystemMessage: after the session is saved the answer is published to
\* the parsed origin.
SysPublish(t) ==
    /\ t \in Turns
    /\ ~crashed
    /\ turn[t].pc = "syspublish"
    /\ Publish(OutboundMessage(turn[t].origin[1], turn[t].origin[2],
                               turn[t].finalContent, <<>>, t, turn[t].iteration, "loop"))
    /\ turn' = [turn EXCEPT ![t].pc = "done"]
    /\ UNCHANGED <<busInVars, dispVars, sessVars, turnBudget, streams, provider,
                   msgToolCtx, subVars>>

----------------------------------------------------------------------------
(* SubagentManager.runSubagent and announceResult *)

\* An announcement that reports every run as completed.
AnnounceContentFlat(status, task, result) ==
    <<"[Subagent ", "completed successfully", "] Task: ">> \o task
    \o <<" Result: ">> \o result

\* announceResult: the content of the announcement
AnnounceContent(status, task, result) ==
    <<"[Subagent ">> \o (IF status = "ok" THEN <<"completed successfully">>
                                            ELSE <<"failed">>)
    \o <<"] Task: ">> \o task \o <<" Result: ">> \o result

\* announceResult: the synthetic inbound message.  seq is history: the task id.
Announcement(sub, k) ==
    InboundMessage(SystemChannel, <<"subagent">>,
                   sub.origin[1] \o <<":">> \o sub.origin[2],
                   AnnounceContent(sub.status, sub.task,
                                   IF sub.status = "ok" /\ sub.finalResult = Empty
                                   THEN SubagentFallbackText ELSE sub.finalResult),
                   k)

\* runSubagent, head of the round loop with budget left: Provider.Chat.  An
\* error is announced; tool calls are executed; a response without tool calls
\* is the final result.
SubChat(k) ==
    /\ k \in DOMAIN subagents
    /\ ~crashed
    /\ subagents[k].pc = "loop"
    /\ subagents[k].iteration < SubagentMaxIterations
    /\ chatBudget > 0
    /\ chatBudget' = chatBudget - 1
    /\ \E o \in chatOutcomes :
          LET base == [subagents EXCEPT ![k].iteration = @ + 1, ![k].calls = @ + 1]
          IN  subagents' =
                IF o.err
                THEN [base EXCEPT ![k].pc = "announce", ![k].status = "error",
                                  ![k].provFailed = TRUE,
                                  ![k].finalResult = <<"Error: provider">>]
                ELSE IF o.toolCalls # <<>>
                     THEN [base EXCEPT ![k].pc = "tools", ![k].toolCalls = o.toolCalls,
                                       ![k].tcIdx = 1]
                     ELSE [base EXCEPT ![k].pc = "announce",
                                       ![k].finalResult = o.content]
    /\ UNCHANGED <<busInVars, busOutVars, dispVars, sessVars, turnBudget, turn, streams,
                   provider, msgToolCtx, spawnToolCtx, running, chatOutcomes, config, cron>>

\* runSubagent, "Execute tools": one call is executed through the private
\* registry.  What a tool of that registry publishes or spawns is recorded
\* with the subagent as its author.
SubExecTool(k) ==
    /\ k \in DOMAIN subagents
    /\ ~crashed
    /\ subagents[k].pc = "tools"
    /\ LET tc == subagents[k].toolCalls[subagents[k].tcIdx]
           ret == RegistryExecute(SubagentTools, tc.Name, tc.Arguments, msgToolCtx,
                                  spawnToolCtx, 0, subagents[k].iteration)
           next == [subagents EXCEPT
                      ![k].tried = @ \cup {tc.Name},
                      ![k].toolFailed = @ \/ ret.err # <<>>,
                      ![k].tcIdx = @ + 1,
                      ![k].pc = IF subagents[k].tcIdx = Len(subagents[k].toolCalls)
                                THEN "loop" ELSE "tools"]
       IN  /\ PublishOpt(IF ret.publish = <<>> THEN <<>>
                         ELSE <<[ret.publish[1] EXCEPT !.by = "subagent"]>>)
           /\ IF ret.spawn # <<>>
              THEN /\ subagents' = Append(next, NewSubagent(ret.spawn[1].task,
                                                            ret.spawn[1].origin, 0 - k))
                   /\ running' = [running EXCEPT !.keys = @ \cup {Len(subagents) + 1}]
                   /\ crashed' \in MapWriteOutcomes(running.writing)
              ELSE /\ subagents' = next
                   /\ UNCHANGED <<running, crashed>>
    /\ UNCHANGED <<busInVars, subscribers, dispatcher, invocations, busStopped, sessVars,
                   turnBudget, turn, streams, provider, msgToolCtx, spawnToolCtx,
                   chatOutcomes, chatBudget, config, cron>>

\* runSubagent / announceResult: the run ended (final result, provider error,
\* or the budget used up) and its result is published as a "system" inbound
\* message; PublishInbound blocks while the inbound queue is full.
SubAnnounce(k) ==
    /\ k \in DOMAIN subagents
    /\ ~crashed
    /\ \/ subagents[k].pc = "announce"
       \/ subagents[k].pc = "loop" /\ subagents[k].iteration >= SubagentMaxIterations
    /\ Len(inbound) < InboundCap
    /\ inbound' = InboundSend(inbound, Announcement(subagents[k], k))
    /\ sentLog' = Append(sentLog, Announcement(subagents[k], k))
    /\ subagents' = [subagents EXCEPT ![k].pc = "exit"]
    /\ UNCHANGED <<callLog, publisher, busOutVars, dispVars, sessVars, turnBudget, turn,
                   streams, provider, msgToolCtx, spawnToolCtx, running, chatOutcomes,
                   chatBudget, config, cron>>

\* runSubagent, "defer delete(m.running, taskID)", first half: the write of the
\* map begins.  The map has no lock.
SubDeleteBegin(k) ==
    /\ k \in DOMAIN subagents
    /\ ~crashed
    /\ subagents[k].pc = "exit"
    /\ crashed' \in MapWriteOutcomes(running.writing)
    /\ running' = [running EXCEPT !.writing = TRUE]
    /\ subagents' = [subagents EXCEPT ![k].pc = "deleting"]
    /\ UNCHANGED <<busInVars, busOutVars, subscribers, dispatcher, invocations,
                   busStopped, sessVars, turnBudget, turn, streams, provider, msgToolCtx,
                   spawnToolCtx, chatOutcomes, chatBudget, config, cron>>

\* runSubagent, the deferred delete, second half: the key is removed.
SubDeleteEnd(k) ==
    /\ k \in DOMAIN subagents
    /\ ~crashed
    /\ subagents[k].pc = "deleting"
    /\ running' = [keys |-> running.keys \ {k}, writing |-> FALSE]
    /\ subagents' = [subagents EXCEPT ![k].pc = "done"]
    /\ UNCHANGED <<busInVars, busOutVars, dispVars, sessVars, turnBudget, turn, streams,
                   provider, msgToolCtx, spawnToolCtx, chatOutcomes, chatBudget, config, cron>>

----------------------------------------------------------------------------
(* The turn specification: adapters publish inbound messages, Run starts one *)
(* processMessage goroutine per message, the goroutines run concurrently.    *)

CliChannel == <<"cli">>
TelegramChannel == <<"telegram">>

\* The inbound messages the adapters may publish.
TurnMessages ==
    { InboundMessage(CliChannel, <<"u">>, <<"direct">>, <<"q">>, 0),
      InboundMessage(CliChannel, <<"u">>, <<"direct">>, <<" ">> \o NewTopicCmd, 0) }

\* What the provider may answer to a Stream call.
TurnOutcomes ==
    { StreamOutcome(TRUE, <<>>),
      StreamOutcome(FALSE, <<>>),
      StreamOutcome(FALSE, <<ContentChunk(<<"a">>)>>),
      StreamOutcome(FALSE, <<ToolChunk(0, <<"c1">>, ReadFileName, Empty)>>),
      StreamOutcome(FALSE, <<ContentChunk(<<"a">>),
                             ToolChunk(0, <<"c2">>, MessageName, ArgsContentText)>>) }

IdleDispatcher == [pc |-> "idle", msg |-> <<>>, log |-> <<>>]

InitBus ==
    /\ inbound = <<>>
    /\ outbound = <<>>
    /\ outLog = <<>>
    /\ sentLog = <<>>
    /\ callLog = [p \in Publishers |-> 0]
    /\ subscribers = <<>>
    /\ dispatcher = IdleDispatcher
    /\ invocations = <<>>
    /\ busStopped = FALSE
    /\ crashed = FALSE

\* NewSpawnTool, NewSubagentManager: default origin, no subagent running.  The
\* provider serves no Chat call and the configured round budget is the bound.
InitSubagents ==
    /\ spawnToolCtx = <<CliChannel, <<"direct">>>>
    /\ subagents = <<>>
    /\ running = [keys |-> {}, writing |-> FALSE]
    /\ chatOutcomes = {}
    /\ chatBudget = 0
    /\ config = MaxToolIterations
    /\ cron = IdleCron

InitAgent ==
    /\ InitSubagents
    /\ turn = <<>>
    /\ streams = <<>>
    /\ sessObjs = <<>>
    /\ cache = <<>>
    /\ mu = 0
    /\ disk = <<>>
    /\ msgToolCtx = <<Empty, Empty>>

Init ==
    /\ InitBus
    /\ InitAgent
    /\ publisher = [p \in Publishers |->
          [pending |-> <<>>,
           budget |-> IF p = "A" THEN MaxTurns ELSE 0,
           choices |-> IF p = "A" THEN TurnMessages ELSE {}]]
    /\ turnBudget = MaxTurns
    /\ provider = TurnOutcomes

\* The goroutines Run may start in the turn specification.
TurnIds == 1..MaxTurns

Next ==
    \/ \E p \in Publishers : PubCall(p)
    \/ \E p \in Publishers : PubSend(p)
    \/ RunReceive
    \/ \E t \in TurnIds : ProcessStart(t)
    \/ \E t \in TurnIds : NewTopicConfirm(t)
    \/ \E t \in TurnIds : SetToolContext(t)
    \/ \E t \in TurnIds : BuildContext(t)
    \/ \E t \in TurnIds : LoopNext(t)
    \/ \E t \in TurnIds : LoopExit(t)
    \/ \E t \in TurnIds : ChunkRecv(t)
    \/ \E t \in TurnIds : Push(t)
    \/ \E t \in TurnIds : CloseStream(t)
    \/ \E t \in TurnIds : ExecTool(t)
    \/ \E t \in TurnIds : Post(t)
    \/ \E t \in TurnIds : AppendRead(t)
    \/ \E t \in TurnIds : AppendWrite(t)
    \/ \E t \in TurnIds : Save(t)
    \/ \E t \in TurnIds : RunApology(t)

Spec == Init /\ [][Next]_vars

----------------------------------------------------------------------------
(* Properties of a turn *)

\* The turn went through the whole of processMessage and saved its session.
TurnSaved(t) == turn[t].pc = "done" /\ turn[t].sess # 0 /\ turn[t].err = <<>>

\* The positions of the session entries the turn t appended.
EntriesOf(msgs, t) == {i \in DOMAIN msgs : msgs[i].turn = t}

\* The user entry of t is immediately followed by the assistant entry of t.
Adjacent(msgs, t) ==
    \E i \in DOMAIN msgs :
        /\ i + 1 \in DOMAIN msgs
        /\ msgs[i].turn = t /\ msgs[i].role = "user"
        /\ msgs[i + 1].turn = t /\ msgs[i + 1].role = "assistant"

\* C1: two turns for the same session key never interleave their history
\* mutations: once both have completed, the session holds the two entries of
\* each (none lost), and each turn's user entry is immediately followed by its
\* own assistant entry.
C1_NoInterleavedHistory ==
    \A t1, t2 \in Turns :
        (/\ t1 # t2
         /\ TurnSaved(t1) /\ TurnSaved(t2)
         /\ turn[t1].sess = turn[t2].sess)
        => LET msgs == sessObjs[turn[t1].sess].Messages IN
           /\ Len(msgs) = 4
           /\ Cardinality(EntriesOf(msgs, t1)) = 2
           /\ Cardinality(EntriesOf(msgs, t2)) = 2
           /\ Adjacent(msgs, t1)
           /\ Adjacent(msgs, t2)

\* The tool-result entries the round r of turn t appended to the turn context.
ToolEntries(t, r) ==
    SelectSeq(turn[t].messages, LAMBDA e : e.role = "tool" /\ e.round = r)

\* The assistant entry (with the reconstructed calls) of round r of turn t.
RoundCalls(t, r) ==
    LET es == SelectSeq(turn[t].messages,
                        LAMBDA e : e.role = "assistant" /\ e.round = r)
    IN  IF es = <<>> THEN <<>> ELSE es[1].tool_calls

IsPrefix(p, s) == Len(p) <= Len(s) /\ SubSeq(s, 1, Len(p)) = p

\* C5: a tool call whose execution fails validation does not end the turn:
\* the call gets exactly one tool-result entry, carrying the failure text, in
\* the turn context (one entry per executed call of the round, in call order),
\* and the turn leaves the round loop only after a further provider call or
\* with the round budget used up.
C5_ToolFailureContinues ==
    \A t \in Turns : \A f \in turn[t].failed :
        LET r == f[1]
            i == f[2]
            es == ToolEntries(t, r)
            calls == RoundCalls(t, r)
        IN  /\ Len(es) <= Len(calls)
            /\ i <= Len(es)
            /\ es[i].tool_call_id = calls[i].ID
            /\ es[i].name = calls[i].Name
            /\ IsPrefix(ToolErrorPrefix, es[i].content)
            /\ (turn[t].iteration > r \/ turn[t].pc \notin {"tools", "loop"})
                  => Len(es) = Len(calls)
            /\ turn[t].iteration = r
                  => \/ turn[t].pc \in {"tools", "loop"}
                     \/ r = MaxIterations /\ turn[t].pc # "failed" /\ turn[t].err = <<>>

\* C5 witness: a turn whose first round had a read_file call without a path
\* made a second provider call and completed.
C5_Witness ==
    \E t \in Turns :
        /\ <<1, 1>> \in turn[t].failed
        /\ turn[t].calls = 2
        /\ TurnSaved(t)
        /\ ToolEntries(t, 1)[1].content = ToolErrorPrefix \o <<"path must be a string">>

\* The outbound messages the agent loop itself published for turn t.
LoopReplies(t) == {i \in DOMAIN outLog : outLog[i].turn = t /\ outLog[i].by = "loop"}

\* C9: at most one response per turn: the agent loop publishes at most one
\* outbound message (stream, finished content or apology) per inbound message.
C9_AtMostOneResponse ==
    \A t \in Turns : Cardinality(LoopReplies(t)) <= 1

\* C10: once the turn of an ordinary inbound message (not the new-topic
\* command) has finished, at least one outbound message addressed to the
\* message's origin has been published for it.
C10_NeverWithoutReply ==
    \A t \in Turns :
        (turn[t].pc = "done" /\ ~IsNewTopic(turn[t].msg))
        => \E i \in DOMAIN outLog :
              /\ outLog[i].turn = t
              /\ outLog[i].Channel = turn[t].msg.Channel
              /\ outLog[i].ChatID = turn[t].msg.ChatID

----------------------------------------------------------------------------
(* The round specification: one round of processMessage, from the moment     *)
(* Provider.Stream has returned its channel to the reconstruction of the     *)
(* tool calls, together with the consumer of the round's outbound stream.    *)
(* The chunk sequence is any sequence over RoundAlphabet; as in              *)
(* OpenAIProvider.Stream an error chunk is the last chunk of its sequence.   *)

RoundAlphabet ==
    { ContentChunk(<<"a">>),
      ContentChunk(<<"b">>),
      ToolChunk(0, <<"c1">>, ReadFileName, <<"{">>),
      ToolChunk(0, Empty, Empty, <<"p", "}">>),
      ToolChunk(1, <<"c2">>, MessageName, <<"{">>),
      ToolChunk(1, Empty, Empty, <<"c", "}">>),
      BothChunk(<<"b">>, 0, Empty, Empty, <<"}">>),
      FinishChunk }

ChunkSeqs(n) == UNION {[1..k -> RoundAlphabet] : k \in 0..n}

RoundInputs ==
    ChunkSeqs(MaxChunks) \cup {Append(cs, ErrorChunk) : cs \in ChunkSeqs(MaxChunks - 1)}

RoundMessage == InboundMessage(CliChannel, <<"u">>, <<"direct">>, <<"q">>, 1)

InitRound ==
    /\ InitBus
    /\ publisher = [p \in Publishers |-> [pending |-> <<>>, budget |-> 0, choices |-> {}]]
    /\ turnBudget = 1
    /\ provider = {}
    /\ sessObjs = <<NewSession(SessionKey(RoundMessage))>>
    /\ cache = (SessionKey(RoundMessage) :> 1)
    /\ mu = 0
    /\ disk = <<>>
    /\ msgToolCtx = <<RoundMessage.Channel, RoundMessage.ChatID>>
    /\ InitSubagents
    /\ streams = <<NewStream(1, 1)>>
    /\ \E cs \in RoundInputs :
          turn = <<[NewTurn(RoundMessage) EXCEPT
                      !.pc = "chunks", !.sess = 1, !.iteration = 1, !.calls = 1,
                      !.messages = BuildMessages(<<>>, RoundMessage.Content),
                      !.stream = cs, !.input = cs, !.streamOut = 1]>>

NextRound ==
    \/ ChunkRecv(1)
    \/ Push(1)
    \/ CloseStream(1)
    \/ StreamRecv(1)

SpecRound == InitRound /\ [][NextRound]_vars

\* The chunks the round of turn t has received so far.
Consumed(t) == SubSeq(turn[t].input, 1, turn[t].nread)

\* The tool-call fragments among the chunks cs.
ToolFrags(cs) == SelectSeq(cs, LAMBDA c : c.ToolCall # <<>>)

\* The content fragments among the chunks cs, in arrival order.
ContentFrags(cs) ==
    LET withContent == SelectSeq(cs, LAMBDA c : c.Content # Empty)
    IN  [i \in 1..Len(withContent) |-> withContent[i].Content]

\* The call indices that appear in the chunks cs.
IndicesOf(cs) == {ToolFrags(cs)[i].ToolCall[1].Index : i \in 1..Len(ToolFrags(cs))}

RECURSIVE ArgsOf(_, _)
\* The argument fragments of call index k in cs, concatenated in arrival order.
ArgsOf(cs, k) ==
    IF cs = <<>> THEN Empty
    ELSE (IF Head(cs).ToolCall # <<>> /\ Head(cs).ToolCall[1].Index = k
          THEN Head(cs).ToolCall[1].Arguments ELSE Empty)
         \o ArgsOf(Tail(cs), k)

\* The round of turn t has closed its stream and reconstructed its calls.
RoundClosed(t) == turn[t].pc \in {"tools", "post"}

\* The round of turn t is running or closed.
InRound(t) == turn[t].pc \in {"chunks", "push", "close", "tools", "post"}

\* C2: whatever the interleaving of the fragments of distinct call indices (and
\* of content fragments), the reconstructed calls are exactly one call per
\* index that appeared, and the argument text of each is the concatenation, in
\* arrival order, of the argument fragments carrying its index.
C2_ToolCallsReconstructed ==
    \A t \in Turns :
        RoundClosed(t) =>
            LET cs == Consumed(t)
                calls == turn[t].toolCalls
            IN  /\ {calls[i].Index : i \in DOMAIN calls} = IndicesOf(cs)
                /\ Len(calls) = Cardinality(IndicesOf(cs))
                /\ \A i \in DOMAIN calls : calls[i].ArgsText = ArgsOf(cs, calls[i].Index)

\* C2 witness: the fragments of two indices arrived interleaved, and each call
\* got its own two fragments.
C2_Witness ==
    \E t \in Turns :
        /\ RoundClosed(t)
        /\ Len(turn[t].toolCalls) = 2
        /\ turn[t].toolCalls[1].ArgsText = <<"{", "p", "}">>
        /\ turn[t].toolCalls[2].ArgsText = <<"{", "c", "}">>
        /\ turn[t].input[2].ToolCall # <<>> /\ turn[t].input[2].ToolCall[1].Index = 1
        /\ turn[t].input[3].ToolCall # <<>> /\ turn[t].input[3].ToolCall[1].Index = 0

\* The stream messages the agent loop published in round r of turn t.
StreamMsgs(t, r) ==
    {i \in DOMAIN outLog :
        /\ outLog[i].turn = t /\ outLog[i].round = r
        /\ outLog[i].by = "loop" /\ outLog[i].Stream # <<>>}

\* The fragments pushed into the stream of the current round of turn t, in
\* the order pushed: those its consumer has read, then those still buffered.
Pushed(t) == streams[turn[t].streamOut].read \o streams[turn[t].streamOut].buf

\* C3: in a round without tool-call fragments the stream message is published
\* exactly when the first content fragment arrives and never again, it is
\* addressed to the origin and carries the round's stream; the fragments pushed
\* are the content fragments in order; the stream is closed exactly once, and
\* then the concatenation of the fragments is the round's full content.
C3_ContentOnlyRound ==
    \A t \in Turns :
        (InRound(t) /\ ToolFrags(Consumed(t)) = <<>>) =>
            LET cs == Consumed(t)
                so == streams[turn[t].streamOut]
                held == IF turn[t].pc = "push" THEN <<turn[t].chunk[1].Content>> ELSE <<>>
            IN  /\ Cardinality(StreamMsgs(t, turn[t].iteration))
                      = IF ContentFrags(cs) # <<>> THEN 1 ELSE 0
                /\ \A i \in StreamMsgs(t, turn[t].iteration) :
                      /\ outLog[i].Channel = turn[t].msg.Channel
                      /\ outLog[i].ChatID = turn[t].msg.ChatID
                      /\ outLog[i].Stream = <<turn[t].streamOut>>
                /\ Pushed(t) \o held = ContentFrags(cs)
                /\ so.closed = IF RoundClosed(t) THEN 1 ELSE 0
                /\ RoundClosed(t) => turn[t].finalContent = Concat(ContentFrags(cs))
                /\ (RoundClosed(t) /\ so.buf = <<>>) => so.read = ContentFrags(cs)

\* C3 witness: a closed round of two different content fragments, both read
\* by the consumer of its stream.
C3_Witness ==
    \E t \in Turns :
        /\ RoundClosed(t)
        /\ ToolFrags(Consumed(t)) = <<>>
        /\ streams[turn[t].streamOut].read = <<<<"a">>, <<"b">>>>
        /\ streams[turn[t].streamOut].buf = <<>>
        /\ streams[turn[t].streamOut].closed = 1
        /\ Cardinality(StreamMsgs(t, 1)) = 1

\* The texts of the tool-call fragments among cs: ids, names, argument texts.
ToolTexts(cs) ==
    UNION {{ToolFrags(cs)[i].ToolCall[1].ID, ToolFrags(cs)[i].ToolCall[1].Name,
            ToolFrags(cs)[i].ToolCall[1].Arguments} : i \in 1..Len(ToolFrags(cs))}
    \ {Empty}

\* C4: a round that has received no content fragment (only tool-call
\* fragments) has published no stream message, and nothing pushed into a
\* stream or published by the loop is, or contains anything but, content
\* fragments: every pushed fragment is the content of a received chunk and no
\* id, name or argument text.
C4_NoToolFragmentOnSurface ==
    \A t \in Turns :
        InRound(t) =>
            LET cs == Consumed(t) IN
            /\ ContentFrags(cs) = <<>> => StreamMsgs(t, turn[t].iteration) = {}
            /\ \A i \in DOMAIN Pushed(t) :
                  /\ Pushed(t)[i] \in {ContentFrags(cs)[j] : j \in DOMAIN ContentFrags(cs)}
                  /\ Pushed(t)[i] \notin ToolTexts(cs)
            /\ \A i \in DOMAIN outLog :
                  (outLog[i].turn = t /\ outLog[i].by = "loop")
                  => outLog[i].Content \notin ToolTexts(cs)

\* C4 witness: a closed round of tool-call fragments only, with two calls
\* reconstructed and nothing published.
C4_Witness ==
    \E t \in Turns :
        /\ RoundClosed(t)
        /\ Len(ToolFrags(Consumed(t))) = Len(Consumed(t))
        /\ Len(turn[t].toolCalls) = 2
        /\ outLog = <<>>
        /\ streams[turn[t].streamOut].buf = <<>>
        /\ streams[turn[t].streamOut].read = <<>>

----------------------------------------------------------------------------
(* The inbound specification: two adapters publish concurrently, more        *)
(* messages than the inbound channel holds; Run receives them.               *)

InitInbound ==
    /\ InitBus
    /\ InitAgent
    /\ publisher = [p \in Publishers |->
          [pending |-> <<>>,
           budget |-> IF p = "A" THEN MaxPubA ELSE MaxPubB,
           choices |-> IF p = "A"
                       THEN {InboundMessage(CliChannel, <<"A">>, <<"direct">>, <<"q">>, 0)}
                       ELSE {InboundMessage(TelegramChannel, <<"B">>, <<"123">>, <<"q">>, 0)}]]
    /\ turnBudget = MaxPubA + MaxPubB
    /\ provider = {}

NextInbound ==
    \/ \E p \in Publishers : PubCall(p)
    \/ \E p \in Publishers : PubSend(p)
    \/ RunReceive

SpecInbound == InitInbound /\ [][NextInbound]_vars

\* The messages the consumer (Run) has received, in the order received.
Received == [i \in 1..Len(turn) |-> turn[i].msg]

\* The messages of sender p among ms, in order.
FromSender(ms, p) == SelectSeq(ms, LAMBDA m : m.SenderID = <<p>>)

\* C6: inbound delivery is FIFO and at-most-once without loss: the messages
\* received, followed by those still queued, are the messages whose publish
\* completed, in completion order; every message of a sender occurs once; the
\* queue never holds more than its capacity, and the message of every publish
\* call begun is either delivered to the queue or still held by its blocked
\* caller.
C6_InboundFifo ==
    /\ Received \o inbound = sentLog
    /\ Len(inbound) <= InboundCap
    /\ \A p \in Publishers :
          LET mine == FromSender(sentLog, p) IN
          /\ \A i \in DOMAIN mine : mine[i].seq = i
          /\ callLog[p] = Len(mine) + Len(publisher[p].pending)

\* C6 witness: the queue is full of messages of both publishers, a publisher
\* is blocked in PublishInbound with its message, and the consumer has
\* received a message.
C6_Witness ==
    /\ Len(inbound) = InboundCap
    /\ \E p \in Publishers : publisher[p].pending # <<>>
    /\ \A p \in Publishers : FromSender(sentLog, p) # <<>>
    /\ Len(turn) >= 1

----------------------------------------------------------------------------
(* MessageBus: SubscribeOutbound, DispatchOutbound, Stop *)

Surfaces == {CliChannel, TelegramChannel}

\* The callbacks registered so far; a callback is named by its registration order.
Handlers == UNION {{subscribers[c][i] : i \in DOMAIN subscribers[c]} : c \in DOMAIN subscribers}

\* A dispatcher that hands a message to the callbacks of every surface.
SubscribersOfAll(subs, channel) ==
    LET RECURSIVE All(_)
        All(cs) == IF cs = {} THEN <<>>
                   ELSE LET c == CHOOSE x \in cs : TRUE IN subs[c] \o All(cs \ {c})
    IN  All(DOMAIN subs)

\* DispatchOutbound: "subscribers, ok := b.outboundSubscribers[msg.Channel]"
SubscribersOf(subs, channel) ==
    IF channel \in DOMAIN subs THEN subs[channel] ELSE <<>>

\* A callback run without the deferred recover: its panic ends the process.
PanicUncontained(outcome) == outcome = "panic"

\* DispatchOutbound, "defer func() { if r := recover(); r != nil {...} }()":
\* whether the outcome of a callback ends the process (a panic is recovered)
PanicEndsProcess(outcome) == FALSE

\* SubscribeOutbound (under subscribersMu)
SubscribeOutbound(channel) ==
    /\ ~crashed
    /\ Cardinality(Handlers) < MaxSubscribe
    /\ subscribers' = MapPut(subscribers, channel,
                             Append(SubscribersOf(subscribers, channel),
                                    Cardinality(Handlers) + 1))
    /\ UNCHANGED <<busInVars, busOutVars, dispatcher, invocations, busStopped, crashed,
                   sessVars, turnVars>>

\* PublishOutbound, called by any component of the process
ExtPublish(channel) ==
    /\ ~crashed
    /\ Len(outLog) < MaxOutbound
    /\ Publish(OutboundMessage(channel, <<"chat">>, <<"m">>, <<>>, 0, 0, "ext"))
    /\ UNCHANGED <<busInVars, dispVars, sessVars, turnVars>>

\* DispatchOutbound: "case msg := <-b.outbound"
DispatchTake ==
    /\ ~crashed
    /\ dispatcher.pc = "idle"
    /\ outbound # <<>>
    /\ outbound' = Tail(outbound)
    /\ dispatcher' = [dispatcher EXCEPT !.pc = "deliver", !.msg = <<Head(outbound)>>]
    /\ UNCHANGED <<busInVars, outLog, subscribers, invocations, busStopped, crashed,
                   sessVars, turnVars>>

\* DispatchOutbound: the subscribers of the message's surface are read (under
\* the read lock) and one goroutine per callback is started.  log is history:
\* the message and the subscriber table at the time of the dispatch.  An
\* invocation records the callback, the dispatch d it belongs to, its state,
\* and (history) at, the number of dispatches made when the callback ended,
\* and got, the fragments the callback received from the message's stream.
DispatchDeliver ==
    /\ ~crashed
    /\ dispatcher.pc = "deliver"
    /\ LET msg == dispatcher.msg[1]
           subs == SubscribersOf(subscribers, msg.Channel)
           d == Len(dispatcher.log) + 1
       IN  /\ invocations' = invocations \o
                  [i \in 1..Len(subs) |->
                      [handler |-> subs[i], d |-> d, state |-> "running", at |-> 0,
                       got |-> <<>>]]
           /\ dispatcher' = [dispatcher EXCEPT
                  !.pc = "idle", !.msg = <<>>,
                  !.log = Append(@, [msg |-> msg, registered |-> subscribers])]
    /\ UNCHANGED <<busInVars, busOutVars, subscribers, busStopped, crashed, sessVars,
                   turnVars>>

\* One callback goroutine runs callback(message): it returns or panics.
HandlerRun(i) ==
    /\ ~crashed
    /\ i \in DOMAIN invocations
    /\ invocations[i].state = "running"
    /\ \E outcome \in {"ok", "panic"} :
          /\ invocations' = [invocations EXCEPT
                 ![i].state = IF outcome = "panic" THEN "recovered" ELSE "returned",
                 ![i].at = Len(dispatcher.log)]
          /\ crashed' = PanicEndsProcess(outcome)
    /\ UNCHANGED <<busInVars, busOutVars, subscribers, dispatcher, busStopped, sessVars,
                   turnVars>>

\* MessageBus.Stop: close(b.stopChan)
BusStop ==
    /\ ~crashed
    /\ ~busStopped
    /\ busStopped' = TRUE
    /\ UNCHANGED <<busInVars, busOutVars, subscribers, dispatcher, invocations, crashed,
                   sessVars, turnVars>>

\* DispatchOutbound: "case <-b.stopChan: return"
DispatchStop ==
    /\ ~crashed
    /\ busStopped
    /\ dispatcher.pc = "idle"
    /\ dispatcher' = [dispatcher EXCEPT !.pc = "stopped"]
    /\ UNCHANGED <<busInVars, busOutVars, subscribers, invocations, busStopped, crashed,
                   sessVars, turnVars>>

----------------------------------------------------------------------------
(* The outbound specification: components publish outbound messages while   *)
(* adapters subscribe and the dispatcher runs, until the bus is stopped.    *)

InitOutbound ==
    /\ InitBus
    /\ InitAgent
    /\ publisher = [p \in Publishers |-> [pending |-> <<>>, budget |-> 0, choices |-> {}]]
    /\ turnBudget = 0
    /\ provider = {}

\* The callback goroutines the dispatcher may start.
InvocationIds == 1..(MaxOutbound * MaxSubscribe)

NextOutbound ==
    \/ \E c \in Surfaces : SubscribeOutbound(c)
    \/ \E c \in Surfaces : ExtPublish(c)
    \/ DispatchTake
    \/ DispatchDeliver
    \/ \E i \in InvocationIds : HandlerRun(i)
    \/ BusStop
    \/ DispatchStop

SpecOutbound == InitOutbound /\ [][NextOutbound]_vars

\* The invocations of callback h for the d-th dispatched message.
Deliveries(d, h) ==
    {i \in DOMAIN invocations : invocations[i].d = d /\ invocations[i].handler = h}

\* Callback h was registered for the surface of the d-th dispatched message
\* when that message was dispatched.
RegisteredFor(d, h) ==
    LET e == dispatcher.log[d] IN
    /\ e.msg.Channel \in DOMAIN e.registered
    /\ \E i \in DOMAIN e.registered[e.msg.Channel] : e.registered[e.msg.Channel][i] = h

\* C7: every outbound message the dispatcher has dispatched was handed exactly
\* once to every callback registered for its surface at the time of the
\* dispatch, and to no other callback.
C7_DeliveredToSurfaceHandlers ==
    \A d \in DOMAIN dispatcher.log : \A h \in Handlers :
        Cardinality(Deliveries(d, h)) = IF RegisteredFor(d, h) THEN 1 ELSE 0

\* C7 witness: a "cli" message was dispatched while two callbacks were
\* registered for "cli" and one for "telegram"; the two got it, the third not.
C7_Witness ==
    \E d \in DOMAIN dispatcher.log :
        /\ dispatcher.log[d].msg.Channel = CliChannel
        /\ CliChannel \in DOMAIN dispatcher.log[d].registered
        /\ TelegramChannel \in DOMAIN dispatcher.log[d].registered
        /\ Len(dispatcher.log[d].registered[CliChannel]) = 2
        /\ Cardinality({i \in DOMAIN invocations : invocations[i].d = d}) = 2

\* C8: a panic of a callback is contained: the process survives, the other
\* callbacks registered for the surface of the same message have been started
\* all the same, and the dispatcher ends only because the bus was stopped.
C8_PanicContained ==
    /\ ~crashed
    /\ dispatcher.pc = "stopped" => busStopped
    /\ \A i \in DOMAIN invocations :
          invocations[i].state = "recovered" =>
              \A h \in Handlers :
                  RegisteredFor(invocations[i].d, h)
                  => Deliveries(invocations[i].d, h) # {}

\* C8 witness: a callback panicked; another callback of the same message
\* returned; a message published and dispatched after the panic was handled.
C8_Witness ==
    \E i, j, k \in DOMAIN invocations :
        /\ invocations[i].state = "recovered"
        /\ invocations[j].d = invocations[i].d /\ j # i
        /\ invocations[j].state = "returned"
        /\ invocations[k].d > invocations[i].at
        /\ invocations[k].state = "returned"
        /\ ~crashed

----------------------------------------------------------------------------
(* The provider-failure specification: the turns of one conversation with a  *)
(* provider whose Stream call may fail at once or in the middle of a stream. *)

FailOutcomes ==
    { StreamOutcome(TRUE, <<>>),
      StreamOutcome(FALSE, <<ErrorChunk>>),
      StreamOutcome(FALSE, <<ContentChunk(<<"a">>), ErrorChunk>>),
      StreamOutcome(FALSE, <<ToolChunk(0, <<"c1">>, ReadFileName, ArgsPathText)>>),
      StreamOutcome(FALSE, <<ToolChunk(0, <<"c1">>, ReadFileName, ArgsPathText),
                             ErrorChunk>>) }

InitFail ==
    /\ InitBus
    /\ InitAgent
    /\ publisher = [p \in Publishers |->
          [pending |-> <<>>,
           budget |-> IF p = "A" THEN MaxTurns ELSE 0,
           choices |-> IF p = "A"
                       THEN {InboundMessage(CliChannel, <<"u">>, <<"direct">>, <<"q">>, 0)}
                       ELSE {}]]
    /\ turnBudget = MaxTurns
    /\ provider = FailOutcomes

NextFail ==
    \/ \E p \in Publishers : PubCall(p)
    \/ \E p \in Publishers : PubSend(p)
    \/ RunReceive
    \/ \E t \in TurnIds : ProcessStart(t)
    \/ \E t \in TurnIds : SetToolContext(t)
    \/ \E t \in TurnIds : BuildContext(t)
    \/ \E t \in TurnIds : LoopNext(t)
    \/ \E t \in TurnIds : LoopExit(t)
    \/ \E t \in TurnIds : ChunkRecv(t)
    \/ \E t \in TurnIds : Push(t)
    \/ \E t \in TurnIds : CloseStream(t)
    \/ \E t \in TurnIds : ExecTool(t)
    \/ \E t \in TurnIds : Post(t)
    \/ \E t \in TurnIds : AppendRead(t)
    \/ \E t \in TurnIds : AppendWrite(t)
    \/ \E t \in TurnIds : Save(t)
    \/ \E t \in TurnIds : RunApology(t)

SpecFail == InitFail /\ [][NextFail]_vars

\* The apologies the loop published for turn t.
Apologies(t) ==
    {i \in DOMAIN outLog : /\ outLog[i].turn = t
                           /\ outLog[i].by = "loop"
                           /\ IsPrefix(ApologyPrefix, outLog[i].Content)}

\* C11: a finished turn one of whose provider calls failed (the Stream call
\* returned an error, or the stream delivered an error) has exactly one
\* apology, addressed to the surface and conversation of its message, and a
\* finished turn without a provider failure has none.
C11_ProviderFailureApology ==
    \A t \in Turns :
        turn[t].pc = "done" =>
            /\ Cardinality(Apologies(t)) = IF turn[t].provFailed # {} THEN 1 ELSE 0
            /\ \A i \in Apologies(t) :
                  /\ outLog[i].Channel = turn[t].msg.Channel
                  /\ outLog[i].ChatID = turn[t].msg.ChatID

----------------------------------------------------------------------------
(* The tool-context specification: two conversations on different surfaces,  *)
(* whose turns run concurrently and call the messaging tool and the spawn    *)
(* tool without naming a destination.                                        *)

CtxOutcomes ==
    { StreamOutcome(FALSE, <<>>),
      StreamOutcome(FALSE, <<ToolChunk(0, <<"c2">>, MessageName, ArgsContentText)>>),
      StreamOutcome(FALSE, <<ToolChunk(0, <<"c3">>, SpawnName, ArgsTaskText)>>) }

InitCtx ==
    /\ InitBus
    /\ InitAgent
    /\ publisher = [p \in Publishers |->
          [pending |-> <<>>,
           budget |-> IF p = "A" THEN MaxTurns - 1 ELSE 1,
           choices |-> IF p = "A"
                       THEN {InboundMessage(CliChannel, <<"A">>, <<"direct">>, <<"q">>, 0)}
                       ELSE {InboundMessage(TelegramChannel, <<"B">>, <<"123">>, <<"q">>, 0)}]]
    /\ turnBudget = MaxTurns
    /\ provider = CtxOutcomes

NextCtx ==
    \/ \E p \in Publishers : PubCall(p)
    \/ \E p \in Publishers : PubSend(p)
    \/ RunReceive
    \/ \E t \in TurnIds : ProcessStart(t)
    \/ \E t \in TurnIds : SetToolContext(t)
    \/ \E t \in TurnIds : BuildContext(t)
    \/ \E t \in TurnIds : LoopNext(t)
    \/ \E t \in TurnIds : LoopExit(t)
    \/ \E t \in TurnIds : ChunkRecv(t)
    \/ \E t \in TurnIds : CloseStream(t)
    \/ \E t \in TurnIds : ExecTool(t)
    \/ \E t \in TurnIds : Post(t)
    \/ \E t \in TurnIds : AppendRead(t)
    \/ \E t \in TurnIds : AppendWrite(t)
    \/ \E t \in TurnIds : Save(t)

SpecCtx == InitCtx /\ [][NextCtx]_vars

\* C12: every outbound message the messaging tool published for a call without
\* channel and chat_id goes to the surface and conversation of the inbound
\* message of the turn that made the call, and every subagent a turn spawned
\* has that surface and conversation as its origin.
C12_ToolRepliesToOrigin ==
    /\ \A i \in DOMAIN outLog :
          outLog[i].by = "tool" =>
              /\ outLog[i].Channel = turn[outLog[i].turn].msg.Channel
              /\ outLog[i].ChatID = turn[outLog[i].turn].msg.ChatID
    /\ \A k \in DOMAIN subagents :
          subagents[k].by > 0 =>
              subagents[k].origin = <<turn[subagents[k].by].msg.Channel,
                                      turn[subagents[k].by].msg.ChatID>>

----------------------------------------------------------------------------
(* The subagent specification: a turn of the conversation telegram/123 calls *)
(* the spawn tool; the subagents run, announce their results as "system"     *)
(* messages, and the agent loop handles an announcement in a system turn.    *)

SpawnMessage == InboundMessage(TelegramChannel, <<"u">>, <<"123">>, <<"q">>, 0)

\* What the provider may answer to the Stream call of the main turn: a spawn
\* call with a task, a spawn call without arguments, or nothing.
SpawnOutcomes ==
    { StreamOutcome(FALSE, <<>>),
      StreamOutcome(FALSE, <<ToolChunk(0, <<"c3">>, SpawnName, ArgsTaskText)>>),
      StreamOutcome(FALSE, <<ToolChunk(0, <<"c4">>, SpawnName, ArgsEmptyText)>>) }

\* What the provider may answer to a Chat call of a subagent or a system turn.
SpawnChatOutcomes ==
    { ChatOutcome(TRUE, Empty, <<>>),
      ChatOutcome(FALSE, <<"R">>, <<>>),
      ChatOutcome(FALSE, Empty, <<ChatToolCall(<<"c5">>, SpawnName, ArgsTaskText),
                                  ChatToolCall(<<"c6">>, MessageName, ArgsContentText)>>) }

InitSpawn ==
    /\ InitBus
    /\ turn = <<>>
    /\ streams = <<>>
    /\ sessObjs = <<>>
    /\ cache = <<>>
    /\ mu = 0
    /\ disk = <<>>
    /\ msgToolCtx = <<Empty, Empty>>
    /\ spawnToolCtx = <<CliChannel, <<"direct">>>>
    /\ subagents = <<>>
    /\ running = [keys |-> {}, writing |-> FALSE]
    /\ chatOutcomes = SpawnChatOutcomes
    /\ chatBudget = MaxChats
    /\ config = MaxToolIterations
    /\ cron = IdleCron
    /\ publisher = [p \in Publishers |->
          [pending |-> <<>>,
           budget |-> IF p = "A" THEN 1 ELSE 0,
           choices |-> IF p = "A" THEN {SpawnMessage} ELSE {}]]
    /\ turnBudget = MaxTurns
    /\ provider = SpawnOutcomes

\* The subagents that may be started: one per round of the main turn and one
\* per Chat call of a system turn.
SubIds == 1..(MaxToolIterations + MaxChats)

NextSpawn ==
    \/ \E p \in Publishers : PubCall(p)
    \/ \E p \in Publishers : PubSend(p)
    \/ RunReceive
    \/ \E t \in TurnIds : ProcessStart(t)
    \/ \E t \in TurnIds : SetToolContext(t)
    \/ \E t \in TurnIds : BuildContext(t)
    \/ \E t \in TurnIds : LoopNext(t)
    \/ \E t \in TurnIds : LoopExit(t)
    \/ \E t \in TurnIds : ChunkRecv(t)
    \/ \E t \in TurnIds : CloseStream(t)
    \/ \E t \in TurnIds : ExecTool(t)
    \/ \E t \in TurnIds : Post(t)
    \/ \E t \in TurnIds : AppendRead(t)
    \/ \E t \in TurnIds : AppendWrite(t)
    \/ \E t \in TurnIds : Save(t)
    \/ \E t \in TurnIds : RunApology(t)
    \/ \E t \in TurnIds : SysChat(t)
    \/ \E t \in TurnIds : SysPost(t)
    \/ \E t \in TurnIds : SysPublish(t)
    \/ \E k \in SubIds : SubChat(k)
    \/ \E k \in SubIds : SubExecTool(k)
    \/ \E k \in SubIds : SubAnnounce(k)
    \/ \E k \in SubIds : SubDeleteBegin(k)
    \/ \E k \in SubIds : SubDeleteEnd(k)

SpecSpawn == InitSpawn /\ [][NextSpawn]_vars

\* C13: no outbound message produced while handling a "system" message is
\* addressed to the surface "system", and what the loop itself publishes for
\* such a message (the answer or a failure reply) is addressed to the origin
\* parsed from the message's conversation field.
C13_SystemRepliesToOrigin ==
    \A i \in DOMAIN outLog :
        LET t == outLog[i].turn IN
        (t > 0 /\ turn[t].system) =>
            /\ outLog[i].Channel # SystemChannel
            /\ outLog[i].by = "loop" =>
                  /\ outLog[i].Channel = turn[t].origin[1]
                  /\ outLog[i].ChatID = turn[t].origin[2]

----------------------------------------------------------------------------
(* The announcement specification: the subagents a turn spawned run to their *)
(* end while the turn goes on.  Every goroutine that can take a step          *)
(* eventually takes one, and the provider answers every Chat call it is      *)
(* given within its budget.                                                  *)

AnnounceChatOutcomes ==
    { ChatOutcome(TRUE, Empty, <<>>),
      ChatOutcome(FALSE, <<"R">>, <<>>) }

InitAnnounce ==
    /\ InitBus
    /\ turn = <<>>
    /\ streams = <<>>
    /\ sessObjs = <<>>
    /\ cache = <<>>
    /\ mu = 0
    /\ disk = <<>>
    /\ msgToolCtx = <<Empty, Empty>>
    /\ spawnToolCtx = <<CliChannel, <<"direct">>>>
    /\ subagents = <<>>
    /\ running = [keys |-> {}, writing |-> FALSE]
    /\ chatOutcomes = AnnounceChatOutcomes
    /\ chatBudget = MaxChats
    /\ config = MaxToolIterations
    /\ cron = IdleCron
    /\ publisher = [p \in Publishers |->
          [pending |-> <<>>,
           budget |-> IF p = "A" THEN 1 ELSE 0,
           choices |-> IF p = "A" THEN {SpawnMessage} ELSE {}]]
    /\ turnBudget = 1
    /\ provider = SpawnOutcomes

NextAnnounce ==
    \/ \E p \in Publishers : PubCall(p)
    \/ \E p \in Publishers : PubSend(p)
    \/ RunReceive
    \/ \E t \in TurnIds : ProcessStart(t)
    \/ \E t \in TurnIds : SetToolContext(t)
    \/ \E t \in TurnIds : BuildContext(t)
    \/ \E t \in TurnIds : LoopNext(t)
    \/ \E t \in TurnIds : LoopExit(t)
    \/ \E t \in TurnIds : ChunkRecv(t)
    \/ \E t \in TurnIds : CloseStream(t)
    \/ \E t \in TurnIds : ExecTool(t)
    \/ \E t \in TurnIds : Post(t)
    \/ \E t \in TurnIds : AppendRead(t)
    \/ \E t \in TurnIds : AppendWrite(t)
    \/ \E t \in TurnIds : Save(t)
    \/ \E k \in SubIds : SubChat(k)
    \/ \E k \in SubIds : SubAnnounce(k)
    \/ \E k \in SubIds : SubDeleteBegin(k)
    \/ \E k \in SubIds : SubDeleteEnd(k)

SpecAnnounce == InitAnnounce /\ [][NextAnnounce]_vars /\ WF_vars(NextAnnounce)

\* The announcements of task k whose PublishInbound completed.
AnnouncementsOf(k) ==
    {i \in DOMAIN sentLog : sentLog[i].Channel = SystemChannel /\ sentLog[i].seq = k}

\* Task k waits for a provider call the provider does not answer.
Starved(k) ==
    /\ k \in DOMAIN subagents
    /\ subagents[k].pc = "loop"
    /\ subagents[k].iteration < SubagentMaxIterations
    /\ chatBudget = 0

\* C14: every spawned task whose provider calls return eventually publishes
\* an announcement, a "system" inbound message whose conversation field
\* encodes the origin of the task as surface:conversation, and no task ever
\* publishes two.
C14_OneAnnouncementPerTask ==
    \A k \in SubIds :
        /\ (k \in DOMAIN subagents) ~> (AnnouncementsOf(k) # {} \/ Starved(k))
        /\ [](/\ Cardinality(AnnouncementsOf(k)) <= 1
              /\ \A i \in AnnouncementsOf(k) :
                    sentLog[i].ChatID =
                        subagents[k].origin[1] \o <<":">> \o subagents[k].origin[2])

----------------------------------------------------------------------------
(* Subagents and the bus, under SpecSpawn *)

\* The tool-result entries of spawn calls in the context of turn t: every
\* executed call, and the calls SubagentManager.Spawn acknowledged.
SpawnCalls(t) ==
    {i \in DOMAIN turn[t].messages :
        turn[t].messages[i].role = "tool" /\ turn[t].messages[i].name = SpawnName}

SpawnAcks(t) == {i \in SpawnCalls(t) : turn[t].messages[i].content = SpawnAck}

\* What the subagents put on the bus: outbound messages, and inbound messages
\* sent as "subagent".
SubagentOutbound == {i \in DOMAIN outLog : outLog[i].by = "subagent"}

SubagentInbound == {i \in DOMAIN sentLog : sentLog[i].SenderID = <<"subagent">>}

\* The statement as the specification words it: as many subagents as spawn
\* calls executed by the turns.
C15_SubagentsPerSpawnCall ==
    Len(subagents) = Cardinality(UNION {{t} \X SpawnCalls(t) : t \in Turns})

\* C15: a subagent can neither publish an outbound message nor spawn another
\* subagent: every subagent was started by a turn, there are exactly as many
\* subagents as spawn calls of the turns that SubagentManager.Spawn
\* acknowledged (a spawn call without a task string is executed, fails, and
\* starts nothing), no outbound message comes from a subagent, and what a
\* subagent sends inbound is its announcement, at most one per task.
C15_SubagentsIsolated ==
    /\ \A k \in DOMAIN subagents : subagents[k].by \in Turns
    /\ Len(subagents) = Cardinality(UNION {{t} \X SpawnAcks(t) : t \in Turns})
    /\ SubagentOutbound = {}
    /\ \A i \in SubagentInbound :
          /\ sentLog[i].seq \in DOMAIN subagents
          /\ sentLog[i].Channel = SystemChannel
          /\ \A j \in SubagentInbound : sentLog[j].seq = sentLog[i].seq => j = i

\* A subagent asked for the spawn and the messaging tool, finished and
\* announced its result, and a system turn spawned a subagent of its own.
C15_Witness ==
    /\ \E k \in DOMAIN subagents :
          /\ {SpawnName, MessageName} \subseteq subagents[k].tried
          /\ subagents[k].pc = "done"
          /\ AnnouncementsOf(k) # {}
    /\ \E k \in DOMAIN subagents :
          subagents[k].by \in Turns /\ turn[subagents[k].by].system

----------------------------------------------------------------------------
(* The new-topic specification: the conversation cli/direct has a session    *)
(* file from an earlier run; the adapter publishes questions and the         *)
(* new-topic command, and the turns run concurrently.                        *)

\* The content of the entries the session file holds at start.
OldText == <<"old">>

OldSession ==
    [Key |-> CliChannel \o <<":">> \o <<"direct">>,
     Messages |-> <<SessionMsg("user", OldText, 0), SessionMsg("assistant", OldText, 0)>>]

TopicOutcomes ==
    { StreamOutcome(FALSE, <<>>),
      StreamOutcome(FALSE, <<ContentChunk(<<"a">>)>>) }

InitTopic ==
    /\ InitBus
    /\ InitSubagents
    /\ turn = <<>>
    /\ streams = <<>>
    /\ sessObjs = <<>>
    /\ cache = <<>>
    /\ mu = 0
    /\ disk = MapPut(<<>>, OldSession.Key, SessionLines(OldSession))
    /\ msgToolCtx = <<Empty, Empty>>
    /\ publisher = [p \in Publishers |->
          [pending |-> <<>>,
           budget |-> IF p = "A" THEN MaxTurns ELSE 0,
           choices |-> IF p = "A" THEN TurnMessages ELSE {}]]
    /\ turnBudget = MaxTurns
    /\ provider = TopicOutcomes

NextTopic ==
    \/ \E p \in Publishers : PubCall(p)
    \/ \E p \in Publishers : PubSend(p)
    \/ RunReceive
    \/ \E t \in TurnIds : ProcessStart(t)
    \/ \E t \in TurnIds : NewTopicConfirm(t)
    \/ \E t \in TurnIds : SetToolContext(t)
    \/ \E t \in TurnIds : BuildContext(t)
    \/ \E t \in TurnIds : LoopNext(t)
    \/ \E t \in TurnIds : ChunkRecv(t)
    \/ \E t \in TurnIds : Push(t)
    \/ \E t \in TurnIds : CloseStream(t)
    \/ \E t \in TurnIds : Post(t)
    \/ \E t \in TurnIds : AppendRead(t)
    \/ \E t \in TurnIds : AppendWrite(t)
    \/ \E t \in TurnIds : Save(t)

SpecTopic == InitTopic /\ [][NextTopic]_vars

\* The session of the key, as the next GetOrCreate would return it, holds an
\* entry that was in the session file at start.
HoldsOldEntry(key) ==
    \/ /\ key \in DOMAIN cache
       /\ \E i \in DOMAIN sessObjs[cache[key]].Messages :
             sessObjs[cache[key]].Messages[i].content = OldText
    \/ /\ key \in DOMAIN disk
       /\ \E i \in DOMAIN disk[key] :
             disk[key][i].type = "message" /\ disk[key][i].content = OldText

\* C16: once a turn has handled the new-topic command, the session of its key
\* holds none of the entries it held before (a later turn for the key sees
\* none of them in its history); the turn published exactly one message, the
\* fixed confirmation, to the surface and conversation of the command, made
\* no provider call and appended nothing to the session.
C16_NewTopicClears ==
    \A t \in Turns :
        (IsNewTopic(turn[t].msg) /\ turn[t].pc = "done") =>
            /\ ~HoldsOldEntry(SessionKey(turn[t].msg))
            /\ turn[t].calls = 0
            /\ turn[t].appended = <<>>
            /\ \E i \in DOMAIN outLog :
                  /\ outLog[i].turn = t
                  /\ outLog[i].Content = NewTopicReply
                  /\ outLog[i].Channel = turn[t].msg.Channel
                  /\ outLog[i].ChatID = turn[t].msg.ChatID
                  /\ \A j \in DOMAIN outLog : outLog[j].turn = t => j = i

----------------------------------------------------------------------------
(* What a turn adds to its session, under Spec *)

\* The two entries a turn is to add: the user's message, then the final answer.
TwoEntries(t) ==
    <<[role |-> "user", content |-> turn[t].msg.Content],
      [role |-> "assistant", content |-> turn[t].finalContent]>>

\* The outbound messages published for turn t.
OutboundOf(t) == {i \in DOMAIN outLog : outLog[i].turn = t}

\* C17: a turn that went through processMessage to its end made exactly two
\* AddMessage calls, the user's message and then the final answer, and then
\* saved the session; no session ever holds an entry of another role (the
\* tool-call and tool-result entries stay in the turn context).  For a turn
\* that ran alone, the session and its file hold exactly these two entries;
\* a turn answered in its first round by content "a" and no tool call has
\* exactly one outbound message, addressed to the surface of its message.
C17_TwoEntriesPerTurn ==
    /\ \A s \in DOMAIN sessObjs : \A i \in DOMAIN sessObjs[s].Messages :
          sessObjs[s].Messages[i].role \in {"user", "assistant"}
    /\ \A t \in Turns :
          TurnSaved(t) =>
              /\ turn[t].appended = TwoEntries(t)
              /\ Len(turn) = 1 =>
                    /\ sessObjs[turn[t].sess].Messages =
                          <<SessionMsg("user", turn[t].msg.Content, t),
                            SessionMsg("assistant", turn[t].finalContent, t)>>
                    /\ SessionKey(turn[t].msg) \in DOMAIN disk
                    /\ disk[SessionKey(turn[t].msg)] =
                          <<[type |-> "metadata", role |-> "", content |-> Empty],
                            [type |-> "message", role |-> "user",
                             content |-> turn[t].msg.Content],
                            [type |-> "message", role |-> "assistant",
                             content |-> turn[t].finalContent]>>
              /\ (turn[t].iteration = 1 /\ turn[t].toolRounds = {}
                    /\ turn[t].finalContent = <<"a">>) =>
                    /\ Cardinality(OutboundOf(t)) = 1
                    /\ \A i \in OutboundOf(t) : outLog[i].Channel = turn[t].msg.Channel

\* A turn that ran alone executed a tool call in its first round, was answered
\* "a" in its second, and saved its session.
C17_Witness ==
    /\ Len(turn) = 1
    /\ TurnSaved(1)
    /\ turn[1].toolRounds = {1}
    /\ turn[1].finalContent = <<"a">>
    /\ \E i \in DOMAIN turn[1].messages : turn[1].messages[i].role = "tool"
    /\ Len(disk[SessionKey(turn[1].msg)]) = 3

----------------------------------------------------------------------------
(* The session specification: entries are appended to one session, the       *)
(* session is saved, and a Manager started later loads it from its file.     *)

\* The most entries appended before the session is saved.
MaxEntries == 3

SessionRoles == {"user", "assistant"}

SessionTexts == {<<"q">>, <<"a", "b">>, LongText}

RoundTripKey == CliChannel \o <<":">> \o <<"direct">>

\* Manager.GetOrCreate of a key without a file: a new session, cached.
InitSession ==
    /\ InitBus
    /\ InitSubagents
    /\ turn = <<>>
    /\ streams = <<>>
    /\ sessObjs = <<NewSession(RoundTripKey)>>
    /\ cache = MapPut(<<>>, RoundTripKey, 1)
    /\ mu = 0
    /\ disk = <<>>
    /\ msgToolCtx = <<Empty, Empty>>
    /\ publisher = [p \in Publishers |-> [pending |-> <<>>, budget |-> 0, choices |-> {}]]
    /\ turnBudget = 0
    /\ provider = {}

\* Session.AddMessage(role, content, nil) on the session not yet saved
SessionAdd(role, content) ==
    /\ RoundTripKey \notin DOMAIN disk
    /\ Len(sessObjs[1].Messages) < MaxEntries
    /\ sessObjs' = [sessObjs EXCEPT ![1].Messages = Append(@, SessionMsg(role, content, 1))]
    /\ UNCHANGED <<busInVars, busOutVars, dispVars, cache, mu, disk, turnVars>>

\* Manager.Save(session)
SessionSave ==
    /\ RoundTripKey \notin DOMAIN disk
    /\ cache' = MapPut(cache, sessObjs[1].Key, 1)
    /\ disk' = MapPut(disk, sessObjs[1].Key, SessionLines(sessObjs[1]))
    /\ UNCHANGED <<busInVars, busOutVars, dispVars, sessObjs, mu, turnVars>>

\* NewManager and GetOrCreate in a later run of the program: the cache is
\* empty and the session is loaded from its file.
SessionLoad ==
    /\ RoundTripKey \in DOMAIN disk
    /\ Len(sessObjs) = 1
    /\ sessObjs' = Append(sessObjs, LoadSession(RoundTripKey))
    /\ cache' = MapPut(<<>>, RoundTripKey, 2)
    /\ UNCHANGED <<busInVars, busOutVars, dispVars, mu, disk, turnVars>>

NextSession ==
    \/ \E role \in SessionRoles : \E content \in SessionTexts : SessionAdd(role, content)
    \/ SessionSave
    \/ SessionLoad

SpecSession == InitSession /\ [][NextSession]_vars

\* The roles and contents of a sequence of session entries, in order.
RolesAndContents(msgs) ==
    [i \in DOMAIN msgs |-> [role |-> msgs[i].role, content |-> msgs[i].content]]

\* C18: the session loaded from the file holds the entries that were appended
\* before the session was saved: same roles and contents in the same order.
C18_SessionRoundTrip ==
    Len(sessObjs) = 2 =>
        RolesAndContents(sessObjs[2].Messages) = RolesAndContents(sessObjs[1].Messages)

----------------------------------------------------------------------------
(* The termination specification: one turn, for the command-line surface    *)
(* (whose handler is subscribed) or for a cron job without a target surface  *)
(* (channel "cron", for which nothing is subscribed), runs while the         *)
(* dispatcher delivers and the handler drains the stream.  Every goroutine   *)
(* that can take a step eventually takes one; every provider call returns a  *)
(* finite chunk sequence and every tool execution returns.                   *)

CronChannel == <<"cron">>

\* The message the cron service publishes for a job without payload channel.
CronMessage == InboundMessage(CronChannel, <<"cron">>, <<"job1">>, <<"q">>, 0)

\* A response of one content chunk more than streamOut buffers.
LongAnswer == [i \in 1..(StreamCap + 1) |-> ContentChunk(<<"a">>)]

LoopOutcomes ==
    { StreamOutcome(FALSE, <<ContentChunk(<<"a">>)>>),
      StreamOutcome(FALSE, LongAnswer),
      StreamOutcome(FALSE, <<ToolChunk(0, <<"c1">>, ReadFileName, ArgsPathText)>>) }

LoopChatOutcomes ==
    { ChatOutcome(FALSE, <<"R">>, <<>>),
      ChatOutcome(FALSE, Empty, <<ChatToolCall(<<"c5">>, ReadFileName, ArgsPathText)>>) }

\* The handler of the surface "cli" is subscribed.  The configured round
\* budget is 0 (the default applies) or the bound; with the bound the
\* provider may also ask for the spawn tool, and it answers the Chat calls of
\* the subagents, one call more than a subagent may make.
InitLoop ==
    /\ inbound = <<>>
    /\ outbound = <<>>
    /\ outLog = <<>>
    /\ sentLog = <<>>
    /\ callLog = [p \in Publishers |-> 0]
    /\ subscribers = MapPut(<<>>, CliChannel, <<1>>)
    /\ dispatcher = IdleDispatcher
    /\ invocations = <<>>
    /\ busStopped = FALSE
    /\ crashed = FALSE
    /\ turn = <<>>
    /\ streams = <<>>
    /\ sessObjs = <<>>
    /\ cache = <<>>
    /\ mu = 0
    /\ disk = <<>>
    /\ msgToolCtx = <<Empty, Empty>>
    /\ spawnToolCtx = <<CliChannel, <<"direct">>>>
    /\ subagents = <<>>
    /\ running = [keys |-> {}, writing |-> FALSE]
    /\ chatOutcomes = LoopChatOutcomes
    /\ cron = IdleCron
    /\ \/ /\ config = 0
          /\ provider = LoopOutcomes
          /\ chatBudget = 0
       \/ /\ config = MaxToolIterations
          /\ provider = LoopOutcomes \cup
                {StreamOutcome(FALSE, <<ToolChunk(0, <<"c3">>, SpawnName, ArgsTaskText)>>)}
          /\ chatBudget = SubagentMaxIterations + 1
    /\ publisher = [p \in Publishers |->
          [pending |-> <<>>,
           budget |-> IF p = "A" THEN 1 ELSE 0,
           choices |-> IF p = "A"
                       THEN {CronMessage,
                             InboundMessage(CliChannel, <<"u">>, <<"direct">>, <<"q">>, 0)}
                       ELSE {}]]
    /\ turnBudget = 1

\* The stream of the message an invocation was started for: <<>> or <<s>>.
StreamOf(i) == dispatcher.log[invocations[i].d].msg.Stream

\* A callback with a stream message, "for chunk := range msg.Stream": the
\* next fragment is received.
HandlerRecv(i) ==
    /\ ~crashed
    /\ i \in DOMAIN invocations
    /\ invocations[i].state = "running"
    /\ StreamOf(i) # <<>>
    /\ streams[StreamOf(i)[1]].buf # <<>>
    /\ streams' = [streams EXCEPT
          ![StreamOf(i)[1]].buf = Tail(@),
          ![StreamOf(i)[1]].read = Append(@, Head(streams[StreamOf(i)[1]].buf))]
    /\ invocations' = [invocations EXCEPT
          ![i].got = Append(@, Head(streams[StreamOf(i)[1]].buf))]
    /\ UNCHANGED <<busInVars, busOutVars, subscribers, dispatcher, busStopped, crashed,
                   sessVars, turnBudget, turn, provider, msgToolCtx, subVars>>

\* A callback returns: its message has no stream, or the stream is closed and
\* drained.
HandlerDone(i) ==
    /\ ~crashed
    /\ i \in DOMAIN invocations
    /\ invocations[i].state = "running"
    /\ \/ StreamOf(i) = <<>>
       \/ /\ StreamOf(i) # <<>>
          /\ streams[StreamOf(i)[1]].closed > 0
          /\ streams[StreamOf(i)[1]].buf = <<>>
    /\ invocations' = [invocations EXCEPT ![i].state = "returned",
                                          ![i].at = Len(dispatcher.log)]
    /\ UNCHANGED <<busInVars, busOutVars, subscribers, dispatcher, busStopped, crashed,
                   sessVars, turnVars>>

\* The callback goroutines and the subagents of the one turn.
LoopInvocationIds == 1..DefaultMaxIterations

LoopSubIds == 1..MaxToolIterations

NextLoop ==
    \/ \E p \in Publishers : PubCall(p)
    \/ \E p \in Publishers : PubSend(p)
    \/ RunReceive
    \/ \E t \in TurnIds : ProcessStart(t)
    \/ \E t \in TurnIds : SetToolContext(t)
    \/ \E t \in TurnIds : BuildContext(t)
    \/ \E t \in TurnIds : LoopNext(t)
    \/ \E t \in TurnIds : LoopExit(t)
    \/ \E t \in TurnIds : ChunkRecv(t)
    \/ \E t \in TurnIds : Push(t)
    \/ \E t \in TurnIds : CloseStream(t)
    \/ \E t \in TurnIds : ExecTool(t)
    \/ \E t \in TurnIds : Post(t)
    \/ \E t \in TurnIds : AppendRead(t)
    \/ \E t \in TurnIds : AppendWrite(t)
    \/ \E t \in TurnIds : Save(t)
    \/ DispatchTake
    \/ DispatchDeliver
    \/ \E i \in LoopInvocationIds : HandlerRecv(i)
    \/ \E i \in LoopInvocationIds : HandlerDone(i)
    \/ \E k \in LoopSubIds : SubChat(k)
    \/ \E k \in LoopSubIds : SubExecTool(k)
    \/ \E k \in LoopSubIds : SubAnnounce(k)
    \/ \E k \in LoopSubIds : SubDeleteBegin(k)
    \/ \E k \in LoopSubIds : SubDeleteEnd(k)

SpecLoop == InitLoop /\ [][NextLoop]_vars /\ WF_vars(NextLoop)

\* C19: a turn makes at most MaxIterations provider calls and a subagent run
\* at most SubagentMaxIterations, and every turn and every subagent run that
\* started reaches its end (unless the process ended, or the provider still
\* owes the subagent an answer).
C19_RoundLoopsTerminate ==
    /\ [](\A t \in Turns : turn[t].calls <= MaxIterations)
    /\ [](\A k \in DOMAIN subagents : subagents[k].calls <= SubagentMaxIterations)
    /\ \A t \in TurnIds :
          (t \in Turns) ~> (crashed \/ (t \in Turns /\ turn[t].pc = "done"))
    /\ \A k \in LoopSubIds :
          (k \in DOMAIN subagents) ~>
              (\/ crashed
               \/ Starved(k)
               \/ k \in DOMAIN subagents /\ subagents[k].pc = "done")

----------------------------------------------------------------------------
(* The final answer of a turn whose round budget is used up, under Spec *)

\* Every round of turn t, up to the last one the budget allows, reconstructed
\* at least one tool call.
BudgetExhausted(t) == turn[t].toolRounds = 1..MaxIterations

\* C20: the assistant entry that a turn appends to its session after using up
\* its round budget with tool-calling rounds is the fallback text, not text
\* of a tool-calling round.
C20_FallbackWhenExhausted ==
    \A t \in Turns :
        (TurnSaved(t) /\ BudgetExhausted(t)) =>
            /\ turn[t].finalContent = FallbackText
            /\ turn[t].appended[2] = [role |-> "assistant", content |-> FallbackText]

----------------------------------------------------------------------------
(* The adapter specification: one turn for a Feishu or a DingTalk            *)
(* conversation streams its answer; the dispatcher hands the stream message  *)
(* to the adapter's Send, whose calls to the platform may fail.              *)

FeishuChannel == <<"feishu">>
DingTalkChannel == <<"dingtalk">>

\* What happens inside one Send: whether the Feishu client exists, the
\* DingTalk access token is obtained, a DingTalk card template is configured,
\* the card is created and the card message is sent.
SendFacts == [client : BOOLEAN, token : BOOLEAN, template : BOOLEAN,
              card : BOOLEAN, send : BOOLEAN]

\* DingTalkChannel.Send and sendStream for a text message with a stream:
\* TRUE when the call reads the stream until it is closed (the card loop, the
\* fallback after a failed card creation, or the plain "range msg.Stream"),
\* FALSE when it returns without reading it (no access token).
DingTalkSendReads(f) == f.token

\* FeishuChannel.Send and sendStream for a text message with a stream: the
\* stream is read only in the update loop, which is reached when the client
\* is initialised, the card entity is created and the card message is sent.
FeishuSendReads(f) == f.client /\ f.card /\ f.send

AdapterSendReads(channel, f) ==
    IF channel = FeishuChannel THEN FeishuSendReads(f) ELSE DingTalkSendReads(f)

AdapterMessages ==
    { InboundMessage(FeishuChannel, <<"u">>, <<"ou_1">>, <<"q">>, 0),
      InboundMessage(DingTalkChannel, <<"u">>, <<"staff1">>, <<"q">>, 0) }

AdapterOutcomes ==
    { StreamOutcome(FALSE, <<ContentChunk(<<"a">>)>>),
      StreamOutcome(FALSE, LongAnswer) }

\* Both adapters are started and subscribed for their surfaces.
InitAdapter ==
    /\ inbound = <<>>
    /\ outbound = <<>>
    /\ outLog = <<>>
    /\ sentLog = <<>>
    /\ callLog = [p \in Publishers |-> 0]
    /\ subscribers = MapPut(MapPut(<<>>, FeishuChannel, <<1>>), DingTalkChannel, <<2>>)
    /\ dispatcher = IdleDispatcher
    /\ invocations = <<>>
    /\ busStopped = FALSE
    /\ crashed = FALSE
    /\ InitAgent
    /\ publisher = [p \in Publishers |->
          [pending |-> <<>>,
           budget |-> IF p = "A" THEN 1 ELSE 0,
           choices |-> IF p = "A" THEN AdapterMessages ELSE {}]]
    /\ turnBudget = 1
    /\ provider = AdapterOutcomes

\* Send is called with a stream message: up to the point where the stream is
\* read, or to the return of an error.
AdapterSend(i) ==
    /\ ~crashed
    /\ i \in DOMAIN invocations
    /\ invocations[i].state = "running"
    /\ StreamOf(i) # <<>>
    /\ \E f \in SendFacts :
          invocations' = [invocations EXCEPT
              ![i].state = IF AdapterSendReads(dispatcher.log[invocations[i].d].msg.Channel, f)
                           THEN "reading" ELSE "returned",
              ![i].at = Len(dispatcher.log)]
    /\ UNCHANGED <<busInVars, busOutVars, subscribers, dispatcher, busStopped, crashed,
                   sessVars, turnVars>>

\* Send, "case chunk, ok := <-msg.Stream" / "for chunk := range msg.Stream":
\* the next fragment is received.
AdapterRecv(i) ==
    /\ ~crashed
    /\ i \in DOMAIN invocations
    /\ invocations[i].state = "reading"
    /\ streams[StreamOf(i)[1]].buf # <<>>
    /\ streams' = [streams EXCEPT
          ![StreamOf(i)[1]].buf = Tail(@),
          ![StreamOf(i)[1]].read = Append(@, Head(streams[StreamOf(i)[1]].buf))]
    /\ UNCHANGED <<busInVars, busOutVars, dispVars, sessVars, turnBudget, turn,
                   provider, msgToolCtx, subVars>>

\* Send: the stream is closed and drained; Send returns.
AdapterDone(i) ==
    /\ ~crashed
    /\ i \in DOMAIN invocations
    /\ invocations[i].state = "reading"
    /\ streams[StreamOf(i)[1]].closed > 0
    /\ streams[StreamOf(i)[1]].buf = <<>>
    /\ invocations' = [invocations EXCEPT ![i].state = "returned"]
    /\ UNCHANGED <<busInVars, busOutVars, subscribers, dispatcher, busStopped, crashed,
                   sessVars, turnVars>>

NextAdapter ==
    \/ \E p \in Publishers : PubCall(p)
    \/ \E p \in Publishers : PubSend(p)
    \/ RunReceive
    \/ \E t \in TurnIds : ProcessStart(t)
    \/ \E t \in TurnIds : SetToolContext(t)
    \/ \E t \in TurnIds : BuildContext(t)
    \/ \E t \in TurnIds : LoopNext(t)
    \/ \E t \in TurnIds : ChunkRecv(t)
    \/ \E t \in TurnIds : Push(t)
    \/ \E t \in TurnIds : CloseStream(t)
    \/ \E t \in TurnIds : Post(t)
    \/ \E t \in TurnIds : AppendRead(t)
    \/ \E t \in TurnIds : AppendWrite(t)
    \/ \E t \in TurnIds : Save(t)
    \/ DispatchTake
    \/ DispatchDeliver
    \/ \E i \in LoopInvocationIds : AdapterSend(i)
    \/ \E i \in LoopInvocationIds : AdapterRecv(i)
    \/ \E i \in LoopInvocationIds : AdapterDone(i)

SpecAdapter == InitAdapter /\ [][NextAdapter]_vars

\* C21: whenever an adapter's Send has returned for a message that carries a
\* stream, on whatever path, it has read the stream until it was closed; and
\* so no turn stands before a full streamOut whose message was handed to an
\* adapter that no longer reads it.
C21_AdaptersDrainStreams ==
    \A i \in DOMAIN invocations :
        (invocations[i].state = "returned" /\ StreamOf(i) # <<>>) =>
            /\ streams[StreamOf(i)[1]].closed > 0
            /\ streams[StreamOf(i)[1]].buf = <<>>

----------------------------------------------------------------------------
(* BaseChannel: pkg/channels/base.go.  An id is a sequence of one-character  *)
(* tokens; "|" separates the parts of a composite id.                        *)

Bar == "|"

RECURSIVE SplitBar(_, _)
\* strings.Split(s, "|"): cur is the part read so far
SplitBar(s, cur) ==
    IF s = <<>> THEN <<cur>>
    ELSE IF Head(s) = Bar THEN <<cur>> \o SplitBar(Tail(s), <<>>)
         ELSE SplitBar(Tail(s), Append(cur, Head(s)))

\* strings.Contains(senderID, "|")
ContainsBar(s) == \E i \in DOMAIN s : s[i] = Bar

\* An access check that compares whole ids only.
IsAllowedExact(allowFrom, senderID) ==
    \/ Len(allowFrom) = 0
    \/ \E i \in DOMAIN allowFrom : allowFrom[i] = senderID

\* BaseChannel.IsAllowed
IsAllowed(allowFrom, senderID) ==
    \/ Len(allowFrom) = 0
    \/ \E i \in DOMAIN allowFrom :
          \/ allowFrom[i] = senderID
          \/ /\ ContainsBar(senderID)
             /\ \E j \in DOMAIN SplitBar(senderID, <<>>) :
                   SplitBar(senderID, <<>>)[j] = allowFrom[i]

\* The longest id and the longest allow list.
MaxIdLen == 3
MaxAllow == 2

IdTokens == {"a", "b", Bar}

SenderIds == UNION {[1..n -> IdTokens] : n \in 1..MaxIdLen}

AllowEntries == {<<"a">>, <<"b">>, <<"a", Bar, "b">>, <<>>}

AllowLists == UNION {[1..n -> AllowEntries] : n \in 0..MaxAllow}

\* An adapter with its allow list; handled is history: the platform messages
\* HandleMessage was called with and whether each went on to PublishInbound.
InitAllow ==
    /\ InitBus
    /\ InitAgent
    /\ \E allow \in AllowLists :
          publisher = [p \in Publishers |->
              [pending |-> <<>>,
               budget |-> IF p = "A" THEN 2 ELSE 0,
               choices |-> {},
               allowFrom |-> allow,
               handled |-> <<>>]]
    /\ turnBudget = 0
    /\ provider = {}

\* BaseChannel.HandleMessage up to the call of PublishInbound: a message of a
\* sender that is not allowed is dropped; PubSend is the send that follows.
HandleMessage(p, senderID) ==
    /\ ~crashed
    /\ publisher[p].pending = <<>>
    /\ publisher[p].budget > 0
    /\ LET m == InboundMessage(FeishuChannel, senderID, <<"chat">>, <<"q">>,
                               callLog[p] + 1)
           ok == IsAllowed(publisher[p].allowFrom, senderID)
       IN  publisher' = [publisher EXCEPT
               ![p].pending = IF ok THEN <<m>> ELSE <<>>,
               ![p].budget = @ - 1,
               ![p].handled = Append(@, [msg |-> m, published |-> ok])]
    /\ callLog' = [callLog EXCEPT ![p] = @ + 1]
    /\ UNCHANGED <<inbound, sentLog, busOutVars, dispVars, sessVars, turnVars>>

NextAllow ==
    \/ \E p \in Publishers : \E s \in SenderIds : HandleMessage(p, s)
    \/ \E p \in Publishers : PubSend(p)

SpecAllow == InitAllow /\ [][NextAllow]_vars

\* part is one of the "|"-separated parts of id: it holds no "|", and in id
\* it is preceded by nothing or a "|" and followed by nothing or a "|".
IsPartOf(part, id) ==
    /\ \A i \in DOMAIN part : part[i] # Bar
    /\ \E from \in 1..(Len(id) + 1) :
          /\ from + Len(part) - 1 <= Len(id)
          /\ SubSeq(id, from, from + Len(part) - 1) = part
          /\ from = 1 \/ id[from - 1] = Bar
          /\ from + Len(part) > Len(id) \/ id[from + Len(part)] = Bar

\* The sender is allowed by the list, as the claim words it.
AllowedByList(allow, id) ==
    \/ allow = <<>>
    \/ \E i \in DOMAIN allow :
          allow[i] = id \/ (ContainsBar(id) /\ IsPartOf(allow[i], id))

\* The messages of p that went on to PublishInbound, in order.
PublishedOf(p) ==
    LET hs == SelectSeq(publisher[p].handled, LAMBDA h : h.published)
    IN  [i \in DOMAIN hs |-> hs[i].msg]

\* C22: HandleMessage publishes a message on the bus exactly when its sender
\* is allowed: the allow list is empty, or the sender id or one of the
\* "|"-separated parts of a composite sender id equals an entry of the list.
\* What the adapter has sent or is sending is what it let through, in order.
C22_AllowFrom ==
    \A p \in Publishers :
        /\ \A i \in DOMAIN publisher[p].handled :
              LET h == publisher[p].handled[i] IN
              h.published <=> AllowedByList(publisher[p].allowFrom, h.msg.SenderID)
        /\ publisher[p].budget + Len(publisher[p].handled) > 0 =>
              sentLog \o publisher[p].pending = PublishedOf(p)

\* With a non-empty list, a composite sender was allowed through one of its
\* parts and its message is on the bus, and another sender was turned away.
C22_Witness ==
    \E i, j \in DOMAIN publisher["A"].handled :
        LET h == publisher["A"].handled[i]
            g == publisher["A"].handled[j]
        IN  /\ publisher["A"].allowFrom # <<>>
            /\ h.published
            /\ ContainsBar(h.msg.SenderID)
            /\ \A k \in DOMAIN publisher["A"].allowFrom :
                  publisher["A"].allowFrom[k] # h.msg.SenderID
            /\ \E k \in DOMAIN sentLog : sentLog[k] = h.msg
            /\ ~g.published


\* ---------------------------------------------------------------------------
\* Manager.mu: pkg/session/manager.go.  The Manager has ONE mutex for all of
\* its sessions.  GetOrCreate, Save and Clear take it with m.mu.Lock() and
\* hold it over their file I/O (load, os.Create and the writes).  Here Save
\* is taken in its two steps, so that the states in which the mutex is held
\* are visible: two messages of two different chats are handled by two
\* goroutines of Run.
\* ---------------------------------------------------------------------------

OtherChat == <<"other">>

LockMessages ==
    { InboundMessage(CliChannel, <<"u">>, <<"direct">>, <<"q">>, 0),
      InboundMessage(CliChannel, <<"u">>, OtherChat, <<"q">>, 0) }

LockOutcomes ==
    { StreamOutcome(TRUE, <<>>),
      StreamOutcome(FALSE, <<ContentChunk(<<"a">>)>>),
      StreamOutcome(FALSE, <<ToolChunk(0, <<"c1">>, ReadFileName, ArgsPathText)>>) }

InitLock ==
    /\ InitBus
    /\ InitAgent
    /\ publisher = [p \in Publishers |->
          [pending |-> <<>>,
           budget |-> IF p = "A" THEN MaxTurns ELSE 0,
           choices |-> IF p = "A" THEN LockMessages ELSE {}]]
    /\ turnBudget = MaxTurns
    /\ provider = LockOutcomes

\* Manager.Save up to the creation of the file: m.mu.Lock(), the cache entry,
\* os.Create (which truncates the file of the session)
SaveLock(t) ==
    /\ t \in Turns
    /\ ~crashed
    /\ turn[t].pc = "save"
    /\ mu = 0
    /\ mu' = t
    /\ LET key == sessObjs[turn[t].sess].Key IN
       /\ cache' = MapPut(cache, key, turn[t].sess)
       /\ disk' = MapPut(disk, key, <<>>)
    /\ turn' = [turn EXCEPT ![t].pc = "saving"]
    /\ UNCHANGED <<busInVars, busOutVars, dispVars, sessObjs, turnBudget, streams,
                   provider, msgToolCtx, subVars>>

\* Manager.Save from the first write on: the metadata line, one line per
\* message, then the deferred file.Close() and m.mu.Unlock()
SaveWrite(t) ==
    /\ t \in Turns
    /\ ~crashed
    /\ turn[t].pc = "saving"
    /\ mu = t
    /\ mu' = 0
    /\ disk' = MapPut(disk, sessObjs[turn[t].sess].Key,
                      SessionLines(sessObjs[turn[t].sess]))
    /\ turn' = [turn EXCEPT ![t].pc = IF turn[t].system THEN "syspublish" ELSE "done"]
    /\ UNCHANGED <<busInVars, busOutVars, dispVars, sessObjs, cache, turnBudget,
                   streams, provider, msgToolCtx, subVars>>

NextLock ==
    \/ \E p \in Publishers : PubCall(p)
    \/ \E p \in Publishers : PubSend(p)
    \/ RunReceive
    \/ \E t \in TurnIds : ProcessStart(t)
    \/ \E t \in TurnIds : SetToolContext(t)
    \/ \E t \in TurnIds : BuildContext(t)
    \/ \E t \in TurnIds : LoopNext(t)
    \/ \E t \in TurnIds : LoopExit(t)
    \/ \E t \in TurnIds : ChunkRecv(t)
    \/ \E t \in TurnIds : Push(t)
    \/ \E t \in TurnIds : CloseStream(t)
    \/ \E t \in TurnIds : ExecTool(t)
    \/ \E t \in TurnIds : Post(t)
    \/ \E t \in TurnIds : AppendRead(t)
    \/ \E t \in TurnIds : AppendWrite(t)
    \/ \E t \in TurnIds : SaveLock(t)
    \/ \E t \in TurnIds : SaveWrite(t)
    \/ \E t \in TurnIds : RunApology(t)

SpecLock == InitLock /\ [][NextLock]_vars

\* the session a turn handler works on
TurnKey(t) == SessionKey(turn[t].msg)

\* the handler of turn t stands at m.mu.Lock() of GetOrCreate, Clear or Save
AtManagerLock(t) == turn[t].pc \in {"start", "save"}

\* C23: turns of two different session keys never block each other: no turn
\* handler working on one session waits at a lock of the session manager
\* (lookup, creation, save, clear) while that lock is held on behalf of a turn
\* working on another session.
C23_SessionsDoNotBlock ==
    \A t \in Turns : \A u \in Turns :
        (AtManagerLock(t) /\ mu = u /\ u # t) => TurnKey(t) = TurnKey(u)


\* ---------------------------------------------------------------------------
\* An error delivered inside the stream (specification SpecFail).
\* ---------------------------------------------------------------------------

\* the entries turn t added to its session as the assistant's answer
StoredAnswers(t) ==
    {i \in DOMAIN turn[t].appended : turn[t].appended[i].role = "assistant"}

\* C24: a round whose stream delivered an error chunk is aborted and surfaced
\* as a failure of the turn: no tool call reconstructed from the fragments
\* received before the error is executed, the partial content is not stored
\* as the final answer, and the finished turn has sent the failure reply.
C24_ErrorChunkAbortsRound ==
    \A t \in Turns :
        /\ \A r \in turn[t].provFailed : ToolEntries(t, r) = <<>>
        /\ turn[t].provFailed # {} => StoredAnswers(t) = {}
        /\ (turn[t].pc = "done" /\ turn[t].provFailed # {}) => Apologies(t) # {}


\* ---------------------------------------------------------------------------
\* The id and the name of a reconstructed call: one round of processMessage
\* over streams in which a call index is carried by fragments with different
\* non-empty ids and names.
\* ---------------------------------------------------------------------------

IdAlphabet ==
    { ContentChunk(<<"a">>),
      ToolChunk(0, <<"c1">>, ReadFileName, <<"{">>),
      ToolChunk(0, Empty, Empty, <<"}">>),
      ToolChunk(0, <<"c9">>, MessageName, <<"}">>),
      ToolChunk(1, <<"c2">>, MessageName, <<"{">>),
      ToolChunk(1, <<"c2">>, Empty, <<"}">>) }

IdInputs == UNION {[1..k -> IdAlphabet] : k \in 0..MaxChunks}

InitIds ==
    /\ InitBus
    /\ publisher = [p \in Publishers |-> [pending |-> <<>>, budget |-> 0, choices |-> {}]]
    /\ turnBudget = 1
    /\ provider = {}
    /\ sessObjs = <<NewSession(SessionKey(RoundMessage))>>
    /\ cache = (SessionKey(RoundMessage) :> 1)
    /\ mu = 0
    /\ disk = <<>>
    /\ msgToolCtx = <<RoundMessage.Channel, RoundMessage.ChatID>>
    /\ InitSubagents
    /\ streams = <<NewStream(1, 1)>>
    /\ \E cs \in IdInputs :
          turn = <<[NewTurn(RoundMessage) EXCEPT
                      !.pc = "chunks", !.sess = 1, !.iteration = 1, !.calls = 1,
                      !.messages = BuildMessages(<<>>, RoundMessage.Content),
                      !.stream = cs, !.input = cs, !.streamOut = 1]>>

SpecIds == InitIds /\ [][NextRound]_vars

\* The fragments of call index k among the chunks cs, in arrival order.
FragsOf(cs, k) ==
    LET fs == SelectSeq(cs, LAMBDA c : c.ToolCall # <<>> /\ c.ToolCall[1].Index = k)
    IN  [i \in 1..Len(fs) |-> fs[i].ToolCall[1]]

\* The first non-empty value of field f among the fragments fs (Empty if none).
FirstNonEmpty(fs, f) ==
    IF \E i \in DOMAIN fs : fs[i][f] # Empty
    THEN fs[CHOOSE i \in DOMAIN fs :
                /\ fs[i][f] # Empty
                /\ \A j \in 1..(i - 1) : fs[j][f] = Empty][f]
    ELSE Empty

\* C25: for each call index, the id and the name of the reconstructed call are
\* the first non-empty id and the first non-empty name carried by a fragment
\* of that index; a later fragment of the index with a different non-empty id
\* or name does not change them.
C25_FirstIdAndName ==
    \A t \in Turns :
        RoundClosed(t) =>
            \A i \in DOMAIN turn[t].toolCalls :
                LET fs == FragsOf(Consumed(t), turn[t].toolCalls[i].Index)
                IN  /\ turn[t].toolCalls[i].ID = FirstNonEmpty(fs, "ID")
                    /\ turn[t].toolCalls[i].Name = FirstNonEmpty(fs, "Name")


\* ---------------------------------------------------------------------------
\* The tool rounds of a turn: one conversation whose provider answers with
\* rounds of two calls (argument text that does not parse, empty argument
\* text, an unregistered tool, fragments arriving in descending index order)
\* or with the final text.
\* ---------------------------------------------------------------------------

UnknownName == <<"no_such_tool">>
FileSaysHello == <<"File says hello">>

ToolsOutcomes ==
    { StreamOutcome(FALSE, <<ToolChunk(0, <<"c1">>, ReadFileName, <<"{">>),
                             ToolChunk(1, <<"c2">>, MessageName, ArgsContentText)>>),
      StreamOutcome(FALSE, <<ToolChunk(1, <<"c2">>, UnknownName, Empty),
                             ContentChunk(<<"a">>),
                             ToolChunk(0, <<"c1">>, ReadFileName, ArgsPathText)>>),
      StreamOutcome(FALSE, <<ToolChunk(0, <<"c1">>, ReadFileName, ArgsPathText)>>),
      StreamOutcome(FALSE, <<ContentChunk(FileSaysHello)>>) }

InitTools ==
    /\ InitBus
    /\ InitAgent
    /\ publisher = [p \in Publishers |->
          [pending |-> <<>>,
           budget |-> IF p = "A" THEN 1 ELSE 0,
           choices |-> IF p = "A"
                       THEN {InboundMessage(CliChannel, <<"u">>, <<"direct">>, <<"q">>, 0)}
                       ELSE {}]]
    /\ turnBudget = 1
    /\ provider = ToolsOutcomes

NextTools ==
    \/ \E p \in Publishers : PubCall(p)
    \/ \E p \in Publishers : PubSend(p)
    \/ RunReceive
    \/ \E t \in TurnIds : ProcessStart(t)
    \/ \E t \in TurnIds : SetToolContext(t)
    \/ \E t \in TurnIds : BuildContext(t)
    \/ \E t \in TurnIds : LoopNext(t)
    \/ \E t \in TurnIds : LoopExit(t)
    \/ \E t \in TurnIds : ChunkRecv(t)
    \/ \E t \in TurnIds : Push(t)
    \/ \E t \in TurnIds : CloseStream(t)
    \/ \E t \in TurnIds : ExecTool(t)
    \/ \E t \in TurnIds : Post(t)
    \/ \E t \in TurnIds : AppendRead(t)
    \/ \E t \in TurnIds : AppendWrite(t)
    \/ \E t \in TurnIds : Save(t)

SpecTools == InitTools /\ [][NextTools]_vars

\* The tool loop of round r of turn t has executed all the calls of the round.
ToolsExecuted(t, r) ==
    /\ r \in turn[t].toolRounds
    /\ \/ turn[t].iteration > r
       \/ turn[t].iteration = r /\ turn[t].pc # "tools"

\* The argument text accumulated for a call is empty or is no JSON document.
Unparsed(tc) == tc.ArgsText = Empty \/ ~JSONValid(tc.ArgsText)

\* C26: a reconstructed call whose concatenated argument text is empty or
\* does not parse gets an empty argument set; the round does not fail, the
\* call is still dispatched to the registry (it gets its result entry), and the
\* other calls of the round are reconstructed from their own text and executed.
C26_UnparsedArgsEmptySet ==
    \A t \in Turns :
        /\ turn[t].pc # "failed"
        /\ \A r \in turn[t].toolRounds :
              LET calls == RoundCalls(t, r) IN
              /\ \A i \in DOMAIN calls :
                    /\ Unparsed(calls[i]) => calls[i].Arguments = {}
                    /\ ~Unparsed(calls[i]) => calls[i].Arguments = JSONValue(calls[i].ArgsText)
              /\ ToolsExecuted(t, r) =>
                    /\ Len(ToolEntries(t, r)) = Len(calls)
                    /\ \A i \in DOMAIN calls :
                          /\ ToolEntries(t, r)[i].tool_call_id = calls[i].ID
                          /\ ToolEntries(t, r)[i].content =
                                ToolOutcome(RegistryExecute(RegisteredTools, calls[i].Name,
                                    IF Unparsed(calls[i]) THEN {}
                                    ELSE JSONValue(calls[i].ArgsText),
                                    <<turn[t].msg.Channel, turn[t].msg.ChatID>>,
                                    spawnToolCtx, t, r)).result

\* C26 witness: a finished round of two calls, the first with argument text
\* "{" that does not parse, the second executed with its own arguments.
C26_Witness ==
    \E t \in Turns :
        /\ ToolsExecuted(t, 1)
        /\ Len(RoundCalls(t, 1)) = 2
        /\ RoundCalls(t, 1)[1].ArgsText = <<"{">>
        /\ RoundCalls(t, 1)[1].Arguments = {}
        /\ ToolEntries(t, 1)[1].content = ToolErrorPrefix \o <<"path must be a string">>
        /\ ToolEntries(t, 1)[2].content = <<"Message (text) sent">>

\* The position in the turn context of the assistant entry of round r.
AssistantAt(t, r) ==
    CHOOSE i \in DOMAIN turn[t].messages :
        turn[t].messages[i].role = "assistant" /\ turn[t].messages[i].round = r

\* The calls stand in ascending order of their call index.
Ascending(calls) ==
    \A i \in DOMAIN calls : \A j \in DOMAIN calls : i < j => calls[i].Index < calls[j].Index

\* C27: a round that reconstructs k >= 1 calls adds exactly 1 + k entries to
\* the turn context: the assistant entry with the round's text and the k
\* calls in ascending index order, then one tool-result entry per call, in the
\* same order, each with the id and the name of its call; an error of a tool
\* or an unregistered name is the result text and the turn goes on; and the
\* answer "File says hello" after a read_file round is the final answer of a
\* turn of exactly two rounds.
C27_ToolRoundGrowsContext ==
    \A t \in Turns :
        /\ turn[t].pc # "failed"
        /\ \A r \in turn[t].toolRounds :
              ToolsExecuted(t, r) =>
                 LET calls == RoundCalls(t, r)
                     k == Len(calls)
                     a == AssistantAt(t, r)
                     msgs == turn[t].messages
                 IN  /\ k >= 1
                     /\ Ascending(calls)
                     /\ Cardinality({i \in DOMAIN msgs : msgs[i].round = r}) = 1 + k
                     /\ \A i \in 1..k :
                           /\ msgs[a + i].role = "tool"
                           /\ msgs[a + i].round = r
                           /\ msgs[a + i].tool_call_id = calls[i].ID
                           /\ msgs[a + i].name = calls[i].Name
                           /\ calls[i].Name \notin RegisteredTools =>
                                 msgs[a + i].content =
                                     ToolErrorPrefix \o <<"tool not found: ">> \o calls[i].Name
        /\ (/\ turn[t].pc = "done"
            /\ turn[t].toolRounds = {1}
            /\ ToolEntries(t, 1) = <<CtxEntry("tool", <<"hello">>, <<"c1">>,
                                              ReadFileName, <<>>, 1)>>
            /\ turn[t].input = <<ContentChunk(FileSaysHello)>>)
              => /\ turn[t].calls = 2
                 /\ turn[t].finalContent = FileSaysHello

\* C27 witness: the turn of the example is done: its first round executed
\* read_file, its second round answered "File says hello", which is stored.
C27_Witness ==
    /\ \E t \in Turns :
          /\ turn[t].pc = "done"
          /\ turn[t].toolRounds = {1}
          /\ ToolEntries(t, 1) = <<CtxEntry("tool", <<"hello">>, <<"c1">>,
                                            ReadFileName, <<>>, 1)>>
          /\ turn[t].finalContent = FileSaysHello
          /\ turn[t].appended[2].content = FileSaysHello


\* ---------------------------------------------------------------------------
\* The shell tool: pkg/tools/cron.go, ExecTool.  A command is a sequence of
\* characters.  DenyPatterns is a list of regular expressions; the first one,
\* \brm\s+-[rf]{1,2}\b, is matched here character by character (the others
\* are matched by the same call).  NewExecTool sets no AllowPatterns.
\* ---------------------------------------------------------------------------

\* strings.ToLower over the letters of the commands
ToLower(s) ==
    [i \in DOMAIN s |-> CASE s[i] = "R" -> "r" [] s[i] = "M" -> "m" [] s[i] = "F" -> "f"
                          [] OTHER -> s[i]]

\* \w of the regular expression
IsWordChar(c) == c \in {"r", "m", "f", "x", "R", "M", "F"}

\* \b before position i of s (i = Len(s) + 1: at the end)
WordBoundary(s, i) ==
    LET before == i - 1 \in DOMAIN s /\ IsWordChar(s[i - 1])
        after == i \in DOMAIN s /\ IsWordChar(s[i])
    IN  before # after

\* regexp.MatchString(`\brm\s+-[rf]{1,2}\b`, s)
MatchRm(s) ==
    \E i \in DOMAIN s : \E j \in DOMAIN s : \E n \in {1, 2} :
        /\ WordBoundary(s, i)
        /\ i + 1 \in DOMAIN s /\ s[i] = "r" /\ s[i + 1] = "m"
        /\ j >= i + 3
        /\ \A k \in (i + 2)..(j - 1) : s[k] = " "
        /\ s[j] = "-"
        /\ \A k \in 1..n : j + k \in DOMAIN s /\ s[j + k] \in {"r", "f"}
        /\ WordBoundary(s, j + n + 1)

\* strings.Contains(s, sub)
Contains(s, sub) ==
    \E i \in 1..(Len(s) - Len(sub) + 1) : SubSeq(s, i, i + Len(sub) - 1) = sub

DeniedText == <<"Error: Command blocked by safety guard (dangerous pattern detected)">>
TraversalText == <<"Error: Command blocked by safety guard (path traversal detected)">>

\* ExecTool.guardCommand: <<>> (nil) or <<text of the error>>
guardCommand(command, restrict) ==
    LET cmd == TrimSpace(command)
        lower == ToLower(cmd)
    IN  IF MatchRm(lower) THEN <<DeniedText>>
        ELSE IF restrict /\ (Contains(cmd, <<".", ".", "\\">>) \/ Contains(cmd, <<".", ".", "/">>))
             THEN <<TraversalText>>
             ELSE <<>>

\* A shell tool that starts the command whatever the guard says.
ExecStartsAlways(guard) == TRUE

\* ExecTool.Execute, "if err := t.guardCommand(...); err != nil { return }":
\* exec.CommandContext and cmd.Run are reached
ExecStarts(guard) == guard = <<>>

\* ExecTool.Execute: args is <<>> (no string under "command") or <<command>>;
\* started tells whether cmd.Run was called.
ExecExecute(args, restrict) ==
    IF args = <<>>
    THEN [result |-> Empty, err |-> <<<<"command must be a string">>>>, started |-> FALSE]
    ELSE LET guard == guardCommand(args[1], restrict) IN
         [result |-> IF guard # <<>> THEN guard[1] ELSE <<"(no output)">>,
          err |-> <<>>,
          started |-> ExecStarts(guard)]

MaxPieces == 4

CommandPieces ==
    { <<"r", "m">>, <<"R", "m">>, <<" ">>, <<"-", "r", "f">>, <<"-", "F">>, <<"x">>,
      <<".", ".", "/">>, <<".", ".">>, <<".", ".", "\\">> }

Commands == {Concat(ps) : ps \in UNION {[1..k -> CommandPieces] : k \in 0..MaxPieces}}

\* One call of the shell tool: its arguments, the restriction the tool was
\* built with and, once Execute has returned, what it returned.
InitExec ==
    /\ inbound = <<>>
    /\ outbound = <<>>
    /\ outLog = <<>>
    /\ sentLog = <<>>
    /\ callLog = [p \in Publishers |-> 0]
    /\ subscribers = <<>>
    /\ dispatcher = IdleDispatcher
    /\ busStopped = FALSE
    /\ crashed = FALSE
    /\ InitAgent
    /\ publisher = [p \in Publishers |-> [pending |-> <<>>, budget |-> 0, choices |-> {}]]
    /\ turnBudget = 0
    /\ provider = {}
    /\ \E args \in {<<>>} \cup {<<c>> : c \in Commands} : \E restrict \in BOOLEAN :
          invocations = <<[state |-> "calling", args |-> args, restrict |-> restrict,
                           ret |-> <<>>]>>

ExecCall ==
    /\ invocations[1].state = "calling"
    /\ invocations' = [invocations EXCEPT
          ![1].state = "returned",
          ![1].ret = <<ExecExecute(invocations[1].args, invocations[1].restrict)>>]
    /\ UNCHANGED <<busInVars, busOutVars, subscribers, dispatcher, busStopped, crashed,
                   sessVars, turnVars>>

NextExec ==
    \/ ExecCall

SpecExec == InitExec /\ [][NextExec]_vars

\* the command contains a path-traversal sequence
HasTraversal(command) ==
    \E i \in DOMAIN command :
        /\ i + 2 \in DOMAIN command
        /\ command[i] = "." /\ command[i + 1] = "."
        /\ command[i + 2] \in {"/", "\\"}

\* C28: the policy checks of the shell tool come before the execution: a
\* command that matches a deny pattern, or that contains a path-traversal
\* sequence while the workspace restriction is on, is never started, and the
\* call returns a blocked-by-policy text and no error.
C28_ShellPolicyBeforeExecution ==
    \A i \in DOMAIN invocations :
        (/\ invocations[i].state = "returned"
         /\ invocations[i].args # <<>>
         /\ \/ MatchRm(invocations[i].args[1])
            \/ invocations[i].restrict /\ HasTraversal(invocations[i].args[1]))
        => /\ ~invocations[i].ret[1].started
           /\ invocations[i].ret[1].err = <<>>
           /\ invocations[i].ret[1].result \in {DeniedText, TraversalText}

\* C28 witness: "../rm -rf" was refused for its deny pattern, with the
\* restriction on, and the call has returned.
C28_Witness ==
    /\ invocations[1].state = "returned"
    /\ invocations[1].args = << <<".", ".", "/", "r", "m", " ", "-", "r", "f">> >>
    /\ invocations[1].restrict
    /\ ~invocations[1].ret[1].started
    /\ invocations[1].ret[1].result = DeniedText


\* ---------------------------------------------------------------------------
\* The round budget of a system turn (specification SpecSpawn).
\* ---------------------------------------------------------------------------

\* C29: the turn of a "system" message runs its round loop with a smaller
\* round budget than an ordinary turn: it makes strictly fewer provider calls
\* than MaxIterations, the number an ordinary turn may make.
C29_SystemTurnSmallerBudget ==
    \A t \in Turns : turn[t].system => turn[t].calls < MaxIterations


\* ---------------------------------------------------------------------------
\* The status of a subagent's announcement: one turn whose rounds call the
\* spawn tool; the provider answers the Chat calls of the subagents with an
\* error, with a final text, or with a call of read_file that fails its
\* validation, and it answers as many calls as a subagent may make.
\* ---------------------------------------------------------------------------

StatusOutcomes ==
    { StreamOutcome(FALSE, <<ToolChunk(0, <<"c3">>, SpawnName, ArgsTaskText)>>),
      StreamOutcome(FALSE, <<ContentChunk(<<"a">>)>>) }

StatusChatOutcomes ==
    { ChatOutcome(TRUE, Empty, <<>>),
      ChatOutcome(FALSE, <<"R">>, <<>>),
      ChatOutcome(FALSE, Empty, <<ChatToolCall(<<"c5">>, ReadFileName, ArgsEmptyText)>>) }

InitStatus ==
    /\ InitBus
    /\ turn = <<>>
    /\ streams = <<>>
    /\ sessObjs = <<>>
    /\ cache = <<>>
    /\ mu = 0
    /\ disk = <<>>
    /\ msgToolCtx = <<Empty, Empty>>
    /\ spawnToolCtx = <<CliChannel, <<"direct">>>>
    /\ subagents = <<>>
    /\ running = [keys |-> {}, writing |-> FALSE]
    /\ chatOutcomes = StatusChatOutcomes
    /\ chatBudget = SubagentMaxIterations
    /\ config = MaxToolIterations
    /\ cron = IdleCron
    /\ publisher = [p \in Publishers |->
          [pending |-> <<>>,
           budget |-> IF p = "A" THEN 1 ELSE 0,
           choices |-> IF p = "A" THEN {SpawnMessage} ELSE {}]]
    /\ turnBudget = 1
    /\ provider = StatusOutcomes

NextStatus ==
    \/ \E p \in Publishers : PubCall(p)
    \/ \E p \in Publishers : PubSend(p)
    \/ RunReceive
    \/ \E t \in TurnIds : ProcessStart(t)
    \/ \E t \in TurnIds : SetToolContext(t)
    \/ \E t \in TurnIds : BuildContext(t)
    \/ \E t \in TurnIds : LoopNext(t)
    \/ \E t \in TurnIds : LoopExit(t)
    \/ \E t \in TurnIds : ChunkRecv(t)
    \/ \E t \in TurnIds : Push(t)
    \/ \E t \in TurnIds : CloseStream(t)
    \/ \E t \in TurnIds : ExecTool(t)
    \/ \E t \in TurnIds : Post(t)
    \/ \E t \in TurnIds : AppendRead(t)
    \/ \E t \in TurnIds : AppendWrite(t)
    \/ \E t \in TurnIds : Save(t)
    \/ \E k \in SubIds : SubChat(k)
    \/ \E k \in SubIds : SubExecTool(k)
    \/ \E k \in SubIds : SubAnnounce(k)
    \/ \E k \in SubIds : SubDeleteBegin(k)
    \/ \E k \in SubIds : SubDeleteEnd(k)

SpecStatus == InitStatus /\ [][NextStatus]_vars

\* The text the announcement of task k must carry: the status words, the
\* task, and the error, the final text or the fixed placeholder as the result.
ExpectedAnnouncement(k) ==
    <<"[Subagent ",
      IF subagents[k].provFailed THEN "failed" ELSE "completed successfully",
      "] Task: ">>
    \o subagents[k].task \o <<" Result: ">>
    \o (IF subagents[k].provFailed THEN <<"Error: provider">>
        ELSE IF subagents[k].finalResult = Empty
             THEN <<"Task completed but no final response was generated.">>
             ELSE subagents[k].finalResult)

\* C30: the failure of a subagent is reported by the same announcement as its
\* success, and only the status tells them apart: the announcement says
\* "failed" exactly when a provider call of the subagent returned an error and
\* "completed successfully" otherwise, also when the budget of 15 rounds is
\* used up without a final answer (the result is then the fixed placeholder);
\* a failed tool execution never makes the task fail.
C30_AnnouncementStatus ==
    \A k \in DOMAIN subagents :
        /\ subagents[k].status = "error" <=> subagents[k].provFailed
        /\ \A i \in AnnouncementsOf(k) :
              /\ sentLog[i].SenderID = <<"subagent">>
              /\ sentLog[i].ChatID = subagents[k].origin[1] \o <<":">> \o subagents[k].origin[2]
              /\ sentLog[i].Content = ExpectedAnnouncement(k)

\* C30 witness: a subagent used up its 15 rounds, each with a failed tool
\* execution, and announced "completed successfully" with the placeholder.
C30_Witness ==
    \E k \in DOMAIN subagents :
        /\ subagents[k].calls = SubagentMaxIterations
        /\ subagents[k].toolFailed
        /\ ~subagents[k].provFailed
        /\ subagents[k].finalResult = Empty
        /\ \E i \in AnnouncementsOf(k) :
              /\ sentLog[i].Content[2] = "completed successfully"
              /\ sentLog[i].Content = ExpectedAnnouncement(k)


\* ---------------------------------------------------------------------------
\* A Save that fails: os.Create returns an error, Save returns it after the
\* cache entry was written, and processMessage drops the returned error.
\* The messages of one conversation are sent one after the other, each after
\* the turn of the previous one has ended.
\* ---------------------------------------------------------------------------

SaveFailOutcomes ==
    { StreamOutcome(FALSE, <<>>),
      StreamOutcome(FALSE, <<ContentChunk(<<"a">>)>>),
      StreamOutcome(FALSE, <<ContentChunk(<<"b">>)>>) }

InitSaveFail ==
    /\ InitBus
    /\ InitAgent
    /\ publisher = [p \in Publishers |->
          [pending |-> <<>>,
           budget |-> IF p = "A" THEN MaxTurns ELSE 0,
           choices |-> IF p = "A"
                       THEN {InboundMessage(CliChannel, <<"u">>, <<"direct">>, <<"q">>, 0)}
                       ELSE {}]]
    /\ turnBudget = MaxTurns
    /\ provider = SaveFailOutcomes

\* The user sends the next message when every turn so far has ended.
LaterCall(p) ==
    /\ \A t \in Turns : turn[t].pc = "done"
    /\ inbound = <<>>
    /\ PubCall(p)

\* A cache that forgets the session whose file could not be written.
SaveFailureCacheDropped(c, key, s) == MapDelete(c, key)

\* Manager.Save, "m.cache[session.Key] = session": the statement before
\* os.Create, so that it has taken place when Save returns the error
SaveFailureCache(c, key, s) == MapPut(c, key, s)

SaveErrorText == <<"save: os.Create failed">>

\* Manager.Save with os.Create failing, and the end of processMessage: the
\* file is left as it was, the returned error is not looked at and the turn
\* returns nil.  err is history here: the error Save returned.
SaveCreateFails(t) ==
    /\ t \in Turns
    /\ ~crashed
    /\ turn[t].pc = "save"
    /\ mu = 0
    /\ cache' = SaveFailureCache(cache, sessObjs[turn[t].sess].Key, turn[t].sess)
    /\ turn' = [turn EXCEPT ![t].pc = IF turn[t].system THEN "syspublish" ELSE "done",
                            ![t].err = <<SaveErrorText>>]
    /\ UNCHANGED <<busInVars, busOutVars, dispVars, sessObjs, mu, disk, turnBudget,
                   streams, provider, msgToolCtx, subVars>>

NextSaveFail ==
    \/ \E p \in Publishers : LaterCall(p)
    \/ \E p \in Publishers : PubSend(p)
    \/ RunReceive
    \/ \E t \in TurnIds : ProcessStart(t)
    \/ \E t \in TurnIds : SetToolContext(t)
    \/ \E t \in TurnIds : BuildContext(t)
    \/ \E t \in TurnIds : LoopNext(t)
    \/ \E t \in TurnIds : ChunkRecv(t)
    \/ \E t \in TurnIds : Push(t)
    \/ \E t \in TurnIds : CloseStream(t)
    \/ \E t \in TurnIds : Post(t)
    \/ \E t \in TurnIds : AppendRead(t)
    \/ \E t \in TurnIds : AppendWrite(t)
    \/ \E t \in TurnIds : Save(t)
    \/ \E t \in TurnIds : SaveCreateFails(t)

SpecSaveFail == InitSaveFail /\ [][NextSaveFail]_vars

\* The Save of turn t returned an error.
SaveFailed(t) == turn[t].err = <<SaveErrorText>>

\* The history turn t built its context from: the entries between the system
\* prompt and the message of the turn, role and content.
HistoryOf(t) ==
    LET built == SelectSeq(turn[t].messages, LAMBDA e : e.round = 0)
        h == SubSeq(built, 2, Len(built) - 1)
    IN  [i \in 1..Len(h) |-> [role |-> h[i].role, content |-> h[i].content]]

\* The context of turn t has been built.
HasContext(t) == turn[t].pc \notin {"start", "confirm", "context", "build"}

\* s occurs in h as a run of adjacent entries.
OccursIn(s, h) == \E i \in 0..(Len(h) - Len(s)) : SubSeq(h, i + 1, i + Len(s)) = s

\* C31: when the Save of a turn fails, the turn still ends normally (it is
\* done, its reply was published, no apology is sent) and the session in
\* memory stays authoritative: the two entries the turn appended are in the
\* history of every later turn of the same key in the same process.
C31_SaveFailureKeepsSession ==
    \A t \in Turns :
        SaveFailed(t) =>
            /\ turn[t].pc = "done"
            /\ Len(turn[t].appended) = 2
            /\ OutboundOf(t) # {}
            /\ Apologies(t) = {}
            /\ \A u \in Turns :
                  (u > t /\ TurnKey(u) = TurnKey(t) /\ HasContext(u))
                     => OccursIn(turn[t].appended, HistoryOf(u))

\* C31 witness: the Save of the first turn failed, the file of the session
\* does not exist, and the second turn has built its context from the two
\* entries of the first.
C31_Witness ==
    /\ Len(turn) = 2
    /\ SaveFailed(1)
    /\ TurnKey(1) \notin DOMAIN disk
    /\ HasContext(2)
    /\ HistoryOf(2) = <<[role |-> "user", content |-> <<"q">>],
                        [role |-> "assistant", content |-> <<"a">>]>>

----------------------------------------------------------------------------
(* cron.Service: the scheduler tick, AddJob and RemoveJob *)

\* Calls of AddJob in the cron specification.
MaxJobs == 3

\* The last instant of the clock in the cron specification.
MaxNow == 3

\* Runs of processJobs in the cron specification.
MaxTicks == 2

\* uuid.New().String()[:8]: the n-th call returns the n-th of distinct ids.
JobIds == <<"j1", "j2", "j3", "j4">>

\* Every variable but cron.
agentVars == <<busInVars, busOutVars, dispVars, sessVars, turnBudget, turn, streams,
               provider, msgToolCtx, spawnToolCtx, subagents, running, chatOutcomes,
               chatBudget, config>>

\* Service.computeNextRun for the kinds "at" and "every"
computeNextRun(schedule, nowMs) ==
    IF schedule.Kind = "at" THEN schedule.AtMs
    ELSE IF schedule.Kind = "every"
         THEN IF schedule.EveryMs <= 0 THEN 0 ELSE nowMs + schedule.EveryMs
         ELSE 0

\* The schedules AddJob is called with.
Schedules ==
    {[Kind |-> "at", AtMs |-> a, EveryMs |-> 0] : a \in 1..2}
        \cup {[Kind |-> "every", AtMs |-> 0, EveryMs |-> 1]}

\* The CronJob AddJob builds: enabled, the next run computed from the schedule.
NewJob(id, schedule, deleteAfterRun, nowMs) ==
    [ID |-> id, Enabled |-> TRUE, Schedule |-> schedule,
     NextRunAtMs |-> computeNextRun(schedule, nowMs), LastRunAtMs |-> 0,
     DeleteAfterRun |-> deleteAfterRun]

\* InitCron: the bus and the agent idle, no adapter publishes, the store empty.
InitCron ==
    /\ InitBus
    /\ InitAgent
    /\ publisher = [p \in Publishers |-> [pending |-> <<>>, budget |-> 0, choices |-> {}]]
    /\ turnBudget = 0
    /\ provider = {}

\* time.Now advances.
ClockAdvance ==
    /\ cron.now < MaxNow
    /\ cron' = [cron EXCEPT !.now = @ + 1]
    /\ UNCHANGED agentVars

\* Service.AddJob, under s.mu: append the new job to the store.
AddJob(schedule, deleteAfterRun) ==
    /\ cron.added < MaxJobs
    /\ cron' = [cron EXCEPT
          !.jobs = Append(@, NewJob(JobIds[cron.added + 1], schedule, deleteAfterRun,
                                    cron.now)),
          !.added = @ + 1]
    /\ UNCHANGED agentVars

\* Service.RemoveJob, under s.mu: the store without the jobs of that id.
RemoveJob(jobID) ==
    /\ \E i \in 1..Len(cron.jobs) : cron.jobs[i].ID = jobID
    /\ cron' = [cron EXCEPT
          !.jobs = SelectSeq(@, LAMBDA j : j.ID # jobID),
          !.removed = @ \cup {jobID}]
    /\ UNCHANGED agentVars

\* processJobs, the condition of a due job
IsDue(job, nowMs) == job.Enabled /\ job.NextRunAtMs > 0 /\ nowMs >= job.NextRunAtMs

\* processJobs, first critical section: the indices of the due jobs, ascending.
DueIndices(jobs, nowMs) ==
    SelectSeq([i \in 1..Len(jobs) |-> i], LAMBDA i : IsDue(jobs[i], nowMs))

\* The timer of Service.loop fires: processJobs collects dueIndices.
ProcessJobsBegin ==
    /\ cron.pc = "idle"
    /\ cron.tick < MaxTicks
    /\ cron' = [cron EXCEPT
          !.pc = "fetch",
          !.tick = @ + 1,
          !.due = DueIndices(cron.jobs, cron.now),
          !.k = 1,
          !.dueIds = Append(@, {cron.jobs[i].ID : i \in
                                  {j \in 1..Len(cron.jobs) : IsDue(cron.jobs[j], cron.now)}})]
    /\ UNCHANGED agentVars

\* processJobs, "for _, idx := range dueIndices": the end of the loop, or an
\* index beyond the store (continue), or the copy of s.store.Jobs[idx].
ProcessJobsFetch ==
    /\ cron.pc = "fetch"
    /\ cron' = IF cron.k > Len(cron.due)
               THEN [cron EXCEPT !.pc = "idle", !.due = <<>>, !.k = 0]
               ELSE IF cron.due[cron.k] > Len(cron.jobs)
                    THEN [cron EXCEPT !.k = @ + 1]
                    ELSE [cron EXCEPT !.pc = "exec",
                                      !.job = <<cron.jobs[cron.due[cron.k]]>>]
    /\ UNCHANGED agentVars

\* The message the job callback of runAgent publishes for a job without a
\* payload channel.
OnJobMessage(job, n) == InboundMessage(CronChannel, <<"cron">>, <<job.ID>>, <<"job">>, n)

\* Service.executeJob: the callback publishes the inbound message, then the
\* copy records the run.
ExecuteJob ==
    /\ cron.pc = "exec"
    /\ Len(inbound) < InboundCap
    /\ inbound' = InboundSend(inbound, OnJobMessage(cron.job[1], Len(cron.ran) + 1))
    /\ sentLog' = Append(sentLog, OnJobMessage(cron.job[1], Len(cron.ran) + 1))
    /\ cron' = [cron EXCEPT
          !.pc = "update",
          !.job = <<[cron.job[1] EXCEPT !.LastRunAtMs = cron.now]>>,
          !.ran = Append(@, [tick |-> cron.tick, ID |-> cron.job[1].ID,
                             Kind |-> cron.job[1].Schedule.Kind,
                             DeleteAfterRun |-> cron.job[1].DeleteAfterRun])]
    /\ UNCHANGED <<callLog, publisher, busOutVars, dispVars, sessVars, turnBudget, turn,
                   streams, provider, msgToolCtx, spawnToolCtx, subagents, running,
                   chatOutcomes, chatBudget, config>>

\* The store without its i-th job.
RemoveAt(jobs, i) == SubSeq(jobs, 1, i - 1) \o SubSeq(jobs, i + 1, Len(jobs))

\* processJobs, the update after the execution: the job is found by its id; a
\* job that is no longer in the store is left out.
AfterRun(jobs, job, nowMs) ==
    LET found == {i \in 1..Len(jobs) : jobs[i].ID = job.ID} IN
    IF found = {} THEN jobs
    ELSE LET storeIdx == CHOOSE i \in found : \A j \in found : i <= j IN
         IF job.Schedule.Kind = "at"
         THEN IF job.DeleteAfterRun
              THEN RemoveAt(jobs, storeIdx)
              ELSE [jobs EXCEPT ![storeIdx] =
                        [job EXCEPT !.Enabled = FALSE, !.NextRunAtMs = 0]]
         ELSE [jobs EXCEPT ![storeIdx] =
                   [job EXCEPT !.NextRunAtMs = computeNextRun(job.Schedule, nowMs)]]

ProcessJobsUpdate ==
    /\ cron.pc = "update"
    /\ cron' = [cron EXCEPT
          !.pc = "fetch",
          !.jobs = AfterRun(cron.jobs, cron.job[1], cron.now),
          !.job = <<>>,
          !.k = @ + 1]
    /\ UNCHANGED agentVars

NextCron ==
    \/ ClockAdvance
    \/ \E s \in Schedules, d \in BOOLEAN : AddJob(s, d)
    \/ \E n \in 1..MaxJobs : RemoveJob(JobIds[n])
    \/ ProcessJobsBegin
    \/ ProcessJobsFetch
    \/ ExecuteJob
    \/ ProcessJobsUpdate

SpecCron == InitCron /\ [][NextCron]_vars

\* The runs of the callback in tick n for the job of that id.
RunsOf(n, id) == {i \in 1..Len(cron.ran) : cron.ran[i].tick = n /\ cron.ran[i].ID = id}

\* Tick n has ended.
TickEnded(n) == n < cron.tick \/ (n = cron.tick /\ cron.pc = "idle")

\* C32: in every scheduler tick the job callback is invoked exactly for the
\* jobs that were enabled and due when the tick began: as long as RemoveJob
\* has removed no job, no job that was not due then is invoked, and when the
\* tick has ended every job that was due then has been invoked once
\* (specification SpecCron).
C32_TickInvokesDueJobs ==
    cron.removed = {} =>
       /\ \A i \in 1..Len(cron.ran) : cron.ran[i].ID \in cron.dueIds[cron.ran[i].tick]
       /\ \A n \in 1..Len(cron.dueIds) :
             TickEnded(n) =>
                \A id \in cron.dueIds[n] : Cardinality(RunsOf(n, id)) = 1


\* The job of that id in the store, as a sequence of at most one job.
StoredJob(id) == SelectSeq(cron.jobs, LAMBDA j : j.ID = id)

\* The callback has run for the job of that id, and the update that follows
\* the run has been made.
RanAndUpdated(i) ==
    ~(cron.pc = "update" /\ i = Len(cron.ran))

\* The ids of the store are unique.
StoreIdsUnique ==
    \A i, j \in 1..Len(cron.jobs) : cron.jobs[i].ID = cron.jobs[j].ID => i = j

\* A job RemoveJob removed is not in the store.
RemovedStayOut == \A id \in cron.removed : StoredJob(id) = <<>>

\* A job AddJob added is in the store unless RemoveJob removed it or it is a
\* delete-after-run one-shot job that ran.
AddedPresent ==
    \A n \in 1..cron.added :
       \/ StoredJob(JobIds[n]) # <<>>
       \/ JobIds[n] \in cron.removed
       \/ \E i \in 1..Len(cron.ran) :
             /\ cron.ran[i].ID = JobIds[n]
             /\ cron.ran[i].Kind = "at"
             /\ cron.ran[i].DeleteAfterRun

\* A one-shot job that ran is deleted, or disabled with no next run time.
OneShotSettled ==
    \A i \in 1..Len(cron.ran) :
       (cron.ran[i].Kind = "at" /\ RanAndUpdated(i)) =>
          \A j \in 1..Len(cron.jobs) :
             cron.jobs[j].ID = cron.ran[i].ID =>
                /\ ~cron.ran[i].DeleteAfterRun
                /\ ~cron.jobs[j].Enabled
                /\ cron.jobs[j].NextRunAtMs = 0

\* A one-shot job does not fire a second time.
OneShotOnce ==
    \A i, j \in 1..Len(cron.ran) :
       (cron.ran[i].Kind = "at" /\ cron.ran[i].ID = cron.ran[j].ID) => i = j


\* C33: for every interleaving of AddJob and RemoveJob with a tick the store
\* stays consistent: ids are unique, a removed job is not put back, an added
\* job is present, and a one-shot job that ran is deleted or disabled with no
\* next run time and does not fire a second time (specification SpecCron).
C33_StoreStaysConsistent ==
    /\ StoreIdsUnique
    /\ RemovedStayOut
    /\ AddedPresent
    /\ OneShotSettled
    /\ OneShotOnce

----------------------------------------------------------------------------
(* A turn that starts after the new-topic command: the conversation          *)
(* cli/direct has a session file from an earlier run; adapter A publishes    *)
(* questions and the command, adapter B publishes a question once a command  *)
(* has been handled.                                                         *)

ClearTurnIds == 1..(MaxTurns + 1)

LaterText == <<"later">>

LaterMessage == InboundMessage(CliChannel, <<"u">>, <<"direct">>, LaterText, 0)

InitClear ==
    /\ InitBus
    /\ InitSubagents
    /\ turn = <<>>
    /\ streams = <<>>
    /\ sessObjs = <<>>
    /\ cache = <<>>
    /\ mu = 0
    /\ disk = MapPut(<<>>, OldSession.Key, SessionLines(OldSession))
    /\ msgToolCtx = <<Empty, Empty>>
    /\ publisher = [p \in Publishers |->
          [pending |-> <<>>,
           budget |-> IF p = "A" THEN MaxTurns ELSE 1,
           choices |-> IF p = "A" THEN TurnMessages ELSE {LaterMessage}]]
    /\ turnBudget = MaxTurns + 1
    /\ provider = TopicOutcomes

\* A turn has handled the new-topic command.
CommandHandled == \E t \in Turns : IsNewTopic(turn[t].msg) /\ turn[t].pc = "done"

\* Adapter B publishes its question when a command has been handled.
CallAfterClear(p) ==
    /\ p = "B"
    /\ CommandHandled
    /\ PubCall(p)

NextClear ==
    \/ PubCall("A")
    \/ \E p \in Publishers : CallAfterClear(p)
    \/ \E p \in Publishers : PubSend(p)
    \/ RunReceive
    \/ \E t \in ClearTurnIds : ProcessStart(t)
    \/ \E t \in ClearTurnIds : NewTopicConfirm(t)
    \/ \E t \in ClearTurnIds : SetToolContext(t)
    \/ \E t \in ClearTurnIds : BuildContext(t)
    \/ \E t \in ClearTurnIds : LoopNext(t)
    \/ \E t \in ClearTurnIds : ChunkRecv(t)
    \/ \E t \in ClearTurnIds : Push(t)
    \/ \E t \in ClearTurnIds : CloseStream(t)
    \/ \E t \in ClearTurnIds : Post(t)
    \/ \E t \in ClearTurnIds : AppendRead(t)
    \/ \E t \in ClearTurnIds : AppendWrite(t)
    \/ \E t \in ClearTurnIds : Save(t)

SpecClear == InitClear /\ [][NextClear]_vars

\* C34: once a new-topic command for a key has been processed, the history a
\* turn for the key that starts afterwards builds its context from contains
\* no entry appended before the clear, also when another turn for the key was
\* in flight at the clear and saves its session afterwards (specification
\* SpecClear).
C34_NoOldHistoryAfterClear ==
    \A t \in Turns :
        (turn[t].msg.Content = LaterText /\ HasContext(t)) =>
            \A i \in DOMAIN HistoryOf(t) : HistoryOf(t)[i].content # OldText

----------------------------------------------------------------------------
(* One-shot command-line mode: runAgent has started DispatchOutbound and     *)
(* Run, publishes the one inbound message, subscribes the handler of "cli"   *)
(* and waits for the handler to close done.  Every goroutine that can take   *)
(* a step eventually takes one.                                              *)

OneShotMessages ==
    { InboundMessage(CliChannel, <<"user">>, <<"direct">>, <<"q">>, 0),
      InboundMessage(CliChannel, <<"user">>, <<"direct">>, NewTopicCmd, 0) }

OneShotOutcomes ==
    { StreamOutcome(FALSE, <<>>),
      StreamOutcome(FALSE, <<ContentChunk(<<"a">>)>>),
      StreamOutcome(FALSE, <<ContentChunk(<<"a">>), ContentChunk(<<"b">>)>>) }

InitOneShot ==
    /\ InitBus
    /\ InitAgent
    /\ publisher = [p \in Publishers |->
          [pending |-> <<>>,
           budget |-> IF p = "A" THEN 1 ELSE 0,
           choices |-> IF p = "A" THEN OneShotMessages ELSE {}]]
    /\ turnBudget = 1
    /\ provider = OneShotOutcomes

\* runAgent: SubscribeOutbound("cli", ...), the statement after PublishInbound
OneShotSubscribe ==
    /\ sentLog # <<>>
    /\ Handlers = {}
    /\ SubscribeOutbound(CliChannel)

OneShotInvocationIds == 1..MaxOutbound

NextOneShot ==
    \/ \E p \in Publishers : PubCall(p)
    \/ \E p \in Publishers : PubSend(p)
    \/ OneShotSubscribe
    \/ RunReceive
    \/ \E t \in TurnIds : ProcessStart(t)
    \/ \E t \in TurnIds : NewTopicConfirm(t)
    \/ \E t \in TurnIds : SetToolContext(t)
    \/ \E t \in TurnIds : BuildContext(t)
    \/ \E t \in TurnIds : LoopNext(t)
    \/ \E t \in TurnIds : ChunkRecv(t)
    \/ \E t \in TurnIds : Push(t)
    \/ \E t \in TurnIds : CloseStream(t)
    \/ \E t \in TurnIds : Post(t)
    \/ \E t \in TurnIds : AppendRead(t)
    \/ \E t \in TurnIds : AppendWrite(t)
    \/ \E t \in TurnIds : Save(t)
    \/ DispatchTake
    \/ DispatchDeliver
    \/ \E i \in OneShotInvocationIds : HandlerRecv(i)
    \/ \E i \in OneShotInvocationIds : HandlerDone(i)

SpecOneShot == InitOneShot /\ [][NextOneShot]_vars /\ WF_vars(NextOneShot)

\* The handler of "cli" has run to its end: done is closed, "<-done" in
\* runAgent returns and the command finishes.
DoneClosed == \E i \in DOMAIN invocations : invocations[i].state = "returned"

\* C35: in one-shot command-line mode the reply is eventually delivered to
\* the handler of "cli" and the command then finishes (specification
\* SpecOneShot).
C35_OneShotFinishes == <>DoneClosed


\* C36: a turn that started reaches its end with its session persisted,
\* whatever the subscribers of its surface do: pushing content fragments into
\* streamOut does not block it for ever (specification SpecLoop, where the
\* chunk sequences end, the tools return and nothing is subscribed for
\* "cron").
C36_TurnEndsAndPersists ==
    \A t \in TurnIds :
        (t \in Turns) ~>
            (crashed \/ (t \in Turns /\ turn[t].pc = "done" /\ TurnSaved(t)))

----------------------------------------------------------------------------
(* Two handlers of one surface: both callbacks registered for "cli" are      *)
(* started with the same outbound message and range over its Stream.         *)

FanoutOutcomes ==
    { StreamOutcome(FALSE, <<ContentChunk(<<"a">>)>>),
      StreamOutcome(FALSE, <<ContentChunk(<<"a">>), ContentChunk(<<"b">>)>>),
      StreamOutcome(FALSE, <<ContentChunk(<<"a">>), ContentChunk(<<"b">>),
                             ContentChunk(<<"c">>)>>) }

InitFanout ==
    /\ inbound = <<>>
    /\ outbound = <<>>
    /\ outLog = <<>>
    /\ sentLog = <<>>
    /\ callLog = [p \in Publishers |-> 0]
    /\ subscribers = MapPut(<<>>, CliChannel, <<1, 2>>)
    /\ dispatcher = IdleDispatcher
    /\ invocations = <<>>
    /\ busStopped = FALSE
    /\ crashed = FALSE
    /\ InitAgent
    /\ publisher = [p \in Publishers |->
          [pending |-> <<>>,
           budget |-> IF p = "A" THEN 1 ELSE 0,
           choices |-> IF p = "A"
                       THEN {InboundMessage(CliChannel, <<"u">>, <<"direct">>, <<"q">>, 0)}
                       ELSE {}]]
    /\ turnBudget = 1
    /\ provider = FanoutOutcomes

NextFanout ==
    \/ \E p \in Publishers : PubCall(p)
    \/ \E p \in Publishers : PubSend(p)
    \/ RunReceive
    \/ \E t \in TurnIds : ProcessStart(t)
    \/ \E t \in TurnIds : SetToolContext(t)
    \/ \E t \in TurnIds : BuildContext(t)
    \/ \E t \in TurnIds : LoopNext(t)
    \/ \E t \in TurnIds : ChunkRecv(t)
    \/ \E t \in TurnIds : Push(t)
    \/ \E t \in TurnIds : CloseStream(t)
    \/ \E t \in TurnIds : Post(t)
    \/ \E t \in TurnIds : AppendRead(t)
    \/ \E t \in TurnIds : AppendWrite(t)
    \/ \E t \in TurnIds : Save(t)
    \/ DispatchTake
    \/ DispatchDeliver
    \/ \E i \in LoopInvocationIds : HandlerRecv(i)
    \/ \E i \in LoopInvocationIds : HandlerDone(i)

SpecFanout == InitFanout /\ [][NextFanout]_vars

\* Every fragment pushed into the stream s so far, in order.
AllFragments(s) == streams[s].read \o streams[s].buf

\* C37: when two handlers are subscribed to the surface of an outbound
\* message with a stream, each handler that has returned received the
\* complete fragment sequence of the round, in order (specification
\* SpecFanout).
C37_EveryHandlerGetsAllFragments ==
    \A i \in DOMAIN invocations :
        (invocations[i].state = "returned" /\ StreamOf(i) # <<>>) =>
            invocations[i].got = AllFragments(StreamOf(i)[1])


----------------------------------------------------------------------------
(* The running-task table of the subagent manager, under SpecSpawn *)

\* C38: no two goroutines are inside a write of SubagentManager.running at
\* the same time (the runtime never ends the process for concurrent map
\* writes), and the table holds exactly the ids of the tasks that were
\* spawned and have not finished (specification SpecSpawn).
C38_RunningTableExclusive ==
    /\ ~crashed
    /\ running.keys = {k \in DOMAIN subagents : subagents[k].pc # "done"}

----------------------------------------------------------------------------
(* Failing provider calls: an adapter publishes a message of the             *)
(* conversation telegram/123 and an announcement for telegram/456 arrives;   *)
(* every Stream and Chat call may return an error.                           *)

ProvFailAnnouncement ==
    InboundMessage(SystemChannel, <<"subagent">>, <<"telegram", ":", "456">>, <<"done">>, 0)

ProvFailOutcomes ==
    { StreamOutcome(TRUE, <<>>),
      StreamOutcome(FALSE, <<ContentChunk(<<"a">>)>>),
      StreamOutcome(FALSE, <<ToolChunk(0, <<"c1">>, ReadFileName, ArgsPathText)>>) }

ProvFailChatOutcomes ==
    { ChatOutcome(TRUE, Empty, <<>>),
      ChatOutcome(FALSE, <<"R">>, <<>>),
      ChatOutcome(FALSE, Empty, <<ChatToolCall(<<"c5">>, ReadFileName, ArgsPathText)>>) }

InitProvFail ==
    /\ InitBus
    /\ turn = <<>>
    /\ streams = <<>>
    /\ sessObjs = <<>>
    /\ cache = <<>>
    /\ mu = 0
    /\ disk = <<>>
    /\ msgToolCtx = <<Empty, Empty>>
    /\ spawnToolCtx = <<CliChannel, <<"direct">>>>
    /\ subagents = <<>>
    /\ running = [keys |-> {}, writing |-> FALSE]
    /\ chatOutcomes = ProvFailChatOutcomes
    /\ chatBudget = MaxChats
    /\ config = MaxToolIterations
    /\ cron = IdleCron
    /\ publisher = [p \in Publishers |->
          [pending |-> <<>>,
           budget |-> 1,
           choices |-> IF p = "A" THEN {SpawnMessage} ELSE {ProvFailAnnouncement}]]
    /\ turnBudget = MaxTurns
    /\ provider = ProvFailOutcomes

NextProvFail ==
    \/ \E p \in Publishers : PubCall(p)
    \/ \E p \in Publishers : PubSend(p)
    \/ RunReceive
    \/ \E t \in TurnIds : ProcessStart(t)
    \/ \E t \in TurnIds : SetToolContext(t)
    \/ \E t \in TurnIds : BuildContext(t)
    \/ \E t \in TurnIds : LoopNext(t)
    \/ \E t \in TurnIds : LoopExit(t)
    \/ \E t \in TurnIds : ChunkRecv(t)
    \/ \E t \in TurnIds : Push(t)
    \/ \E t \in TurnIds : CloseStream(t)
    \/ \E t \in TurnIds : ExecTool(t)
    \/ \E t \in TurnIds : Post(t)
    \/ \E t \in TurnIds : AppendRead(t)
    \/ \E t \in TurnIds : AppendWrite(t)
    \/ \E t \in TurnIds : Save(t)
    \/ \E t \in TurnIds : RunApology(t)
    \/ \E t \in TurnIds : SysChat(t)
    \/ \E t \in TurnIds : SysPost(t)
    \/ \E t \in TurnIds : SysPublish(t)

SpecProvFail == InitProvFail /\ [][NextProvFail]_vars

\* A provider call of turn t returned an error.
ProviderCallFailed(t) == turn[t].err = <<LLMErrorPrefix>>

\* The key of the session turn t works on.
OriginKey(t) == turn[t].origin[1] \o <<":">> \o turn[t].origin[2]

----------------------------------------------------------------------------
(* The origin of an announcement: Spawn was called with an origin, the run   *)
(* has its result and announces it; an adapter publishes an ordinary message *)
(* of the same conversation, and a "system" message whose conversation field *)
(* has no ":" arrives.  Surface names and conversation ids are sequences of  *)
(* characters.                                                               *)

\* The longest surface name and the longest conversation id.
MaxSurfaceLen == 2
MaxChatLen == 3

SurfaceNames == UNION {[1..n -> {"t", "g"}] : n \in 0..MaxSurfaceLen}

ChatIds == UNION {[1..n -> {"1", ":"}] : n \in 0..MaxChatLen}

\* The content of the "system" message that is not an announcement.
PlainText == <<"x">>

OriginTurnIds == 1..(MaxTurns + 1)

InitOrigin ==
    /\ InitBus
    /\ turn = <<>>
    /\ streams = <<>>
    /\ sessObjs = <<>>
    /\ cache = <<>>
    /\ mu = 0
    /\ disk = <<>>
    /\ msgToolCtx = <<Empty, Empty>>
    /\ spawnToolCtx = <<CliChannel, <<"direct">>>>
    /\ running = [keys |-> {1}, writing |-> FALSE]
    /\ chatOutcomes = {}
    /\ chatBudget = 0
    /\ config = MaxToolIterations
    /\ cron = IdleCron
    /\ turnBudget = MaxTurns + 1
    /\ provider = {}
    /\ \E surface \in SurfaceNames, chat \in ChatIds :
          /\ subagents = <<[NewSubagent(<<"job">>, <<surface, chat>>, 0) EXCEPT
                              !.pc = "announce", !.iteration = 1, !.calls = 1,
                              !.finalResult = <<"R">>]>>
          /\ publisher = [p \in Publishers |->
                [pending |-> <<>>,
                 budget |-> 1,
                 choices |-> IF p = "A"
                             THEN {InboundMessage(surface, <<"u">>, chat, <<"q">>, 0)}
                             ELSE {InboundMessage(SystemChannel, <<"subagent">>,
                                                  SelectSeq(chat, LAMBDA c : c # ":"),
                                                  PlainText, 0)}]]

NextOrigin ==
    \/ \E p \in Publishers : PubCall(p)
    \/ \E p \in Publishers : PubSend(p)
    \/ SubAnnounce(1)
    \/ SubDeleteBegin(1)
    \/ SubDeleteEnd(1)
    \/ RunReceive
    \/ \E t \in OriginTurnIds : ProcessStart(t)
    \/ \E t \in OriginTurnIds : SetToolContext(t)
    \/ \E t \in OriginTurnIds : BuildContext(t)

SpecOrigin == InitOrigin /\ [][NextOrigin]_vars

\* The turn t handles the announcement of a subagent.
OfAnnouncement(t) == turn[t].system /\ turn[t].msg.Content # PlainText

\* s contains ":".
HasColon(s) == \E i \in DOMAIN s : s[i] = ":"

\* C40: the origin a system turn resolves from an announcement is the surface
\* and conversation Spawn was called with, also for a conversation id that
\* contains ":"; the system turn works on the very session an ordinary turn
\* of that surface and conversation works on; and a conversation field
\* without ":" resolves to the surface "cli" (specification SpecOrigin).
C40_OriginRoundTrip ==
    \A t \in Turns :
        /\ OfAnnouncement(t) =>
              /\ turn[t].origin = subagents[turn[t].msg.seq].origin
              /\ \A u \in Turns :
                    (/\ ~turn[u].system
                     /\ <<turn[u].msg.Channel, turn[u].msg.ChatID>> = turn[t].origin
                     /\ turn[t].sess # 0
                     /\ turn[u].sess # 0)
                        => /\ turn[u].sess = turn[t].sess
                           /\ sessObjs[turn[t].sess].Key = SessionKey(turn[u].msg)
        /\ (turn[t].system /\ ~HasColon(turn[t].msg.ChatID)) =>
              turn[t].origin = <<CliChannel, turn[t].msg.ChatID>>

\* C40 witness: Spawn was called with a conversation id that contains two
\* ":"; the system turn of the announcement and an ordinary turn of that
\* conversation hold the same session, and the turn of the "system" message
\* without ":" works for "cli".
C40_Witness ==
    \E t, u, v \in Turns :
        /\ OfAnnouncement(t)
        /\ turn[t].origin = <<<<"t", "g">>, <<":", "1", ":">>>>
        /\ ~turn[u].system
        /\ turn[t].sess # 0
        /\ turn[u].sess = turn[t].sess
        /\ turn[v].system /\ ~OfAnnouncement(v)
        /\ turn[v].origin = <<CliChannel, <<"1">>>>

====
